---- MODULE Spec2Model ----
(***************************************************************************)
(* Lifecycle Engine (OMSHandler / OKXWebSocket) of the market-making       *)
(* pipeline: order submission, exchange acknowledgement, drawdown          *)
(* tracking and the order fill callback with its execution reports.        *)
(*                                                                         *)
(* Units.  Sizes are whole numbers of the 0.1-contract lot (processAction  *)
(* rounds every order size to one decimal), so |x| < 1e-8 is x = 0 and     *)
(* x >= 0.001 is x >= 1.  Prices are in units of 100 USD; an order fills   *)
(* at its limit price, the bid or the ask of the engine.  Ratios           *)
(* (execution percentages, rewards) are exact fractions <<n, d>>.          *)
(* uplRatio and maxdd are in hundredths.                                   *)
(*                                                                         *)
(* Environment.  exch is the exchange's book of the account's orders; the  *)
(* exchange id of an order is its index.  The exchange answers an order    *)
(* request before it reports anything else, the accumulated fill of an     *)
(* order only grows, and an unrealised loss is reported only while the     *)
(* account has a position.                                                 *)
(*                                                                         *)
(* Left out: fields that are written and only logged (cumulative_reward,   *)
(* total_size, price, pnl, the timestamp of a fill portion), the fill      *)
(* portions kept in the active deque, and the local filled_portions        *)
(* vector of the closure paths, which the closure overload of              *)
(* publishTradeUpdate never reads.  The broker publish is taken to         *)
(* succeed (status AMQP_STATUS_OK).  reports is the history of the         *)
(* messages published on execution.update.                                 *)
(***************************************************************************)
EXTENDS Integers, Sequences, FiniteSets, TLC

\* ------------------------------------------------------------------ bounds
MaxOrders == 2
MaxVolume == 3
MaxStateId == 2
MaxTotalVolume == 5

\* the limit of the active-orders deque, 300 in the code, scaled so that a
\* run can fill the deque
MaxDequeSize == 3

\* ------------------------------------------------------- program constants
OpenThreshold == 1
NoId == 0

Prices == {300, 303}
Sides == {"buy", "sell"}
UplRatios == {-10}
StateIds == 1..MaxStateId
Volumes == 1..MaxVolume

VARIABLES orders_, known_orders_, current_trade_, next_trade_, has_next_trade_,
          published_state_ids_, maxdd_, reports, exch

oms_vars == <<orders_, known_orders_, current_trade_, next_trade_, has_next_trade_, published_state_ids_, maxdd_, reports, exch>>

\* Depth Engine (OrderBookHandler): the two sides of the book and the
\* sequence id of the next frame; frames is the history of the sequence ids
\* of the frames handed to the publisher, last_action the action of the
\* message handled last, and resnapshot_due records that a delta was
\* rejected and no snapshot has been accepted since.
VARIABLES bids, asks, current_state_id_, frames, last_action, resnapshot_due

depth_vars == <<bids, asks, current_state_id_, frames, last_action, resnapshot_due>>

\* Decision Relay (PPOHandler): the frame history, the number of frames
\* received, the action history and the orders of the trade skeleton;
\* published is the action frame published last with the window of frames it
\* was computed from and the number of actions so far, and restarted records
\* that the Depth Engine was started anew.
VARIABLES state_buffer_, state_counter_, action_buffer_, skeleton_orders, published, restarted

relay_vars == <<state_buffer_, state_counter_, action_buffer_, skeleton_orders, published, restarted>>

\* The threads of the Lifecycle Engine and the orders mutex: job is what is
\* left of the handler a thread runs, a sequence of sections; inside tells
\* whether the thread is executing the first of them; orders_mutex_ is the
\* thread that holds OKXWebSocket::orders_mutex_.
VARIABLES job, inside, orders_mutex_

lock_vars == <<job, inside, orders_mutex_>>

\* The fill buffer of OKXWebSocket: update_buffer_, the wall clock now in
\* milliseconds and the number of times it advanced; in_flight are the fill
\* updates the exchange has sent and the engine has not received, arrived
\* counts the updates received, and trade_portions is the history of the fill
\* portions the fill callback appended to the trade.
VARIABLES update_buffer_, now, ticks, in_flight, arrived, trade_portions

buffer_vars == <<update_buffer_, now, ticks, in_flight, arrived, trade_portions>>

\* The cancellation queue of OKXWebSocket: old_orders_ and the thread that
\* holds old_orders_mutex_; cancel_pc is the position of the websocket thread
\* in handle_cancel_response with the exchange id it confirms, confirmations
\* are the exchange ids whose positive cancel confirmation the engine has
\* finished with, cancel_requests the ids it asked the exchange to cancel.
VARIABLES old_orders_, old_orders_mutex_, cancel_pc, confirmations, cancel_requests

cancel_vars == <<old_orders_, old_orders_mutex_, cancel_pc, confirmations, cancel_requests>>

\* OKXWebSocket's constructor: empty old_orders_, the mutex free
CancelConstructed ==
    /\ old_orders_ = <<>>
    /\ old_orders_mutex_ = "free"
    /\ cancel_pc = [at |-> "idle", okx_order_id |-> 0]
    /\ confirmations = {}
    /\ cancel_requests = {}

\* The binary codec (binary_utils): action_in is the action tuple handed to
\* encodeOmsActionV2, action_frame the 23-byte frame it wrote (or the fact
\* that it threw), action_out what decodeOmsActionV2 read back and codec_at
\* the step reached; change_value, change_word, change_decoded and change_at
\* are the same for encodeChangeValue / decodeChangeValue alone.
VARIABLES action_in, action_frame, action_out, codec_at, change_value, change_word, change_decoded, change_at

codec_vars == <<action_in, action_frame, action_out, codec_at, change_value, change_word, change_decoded, change_at>>

\* nothing has been encoded
CodecConstructed ==
    /\ action_in = [action_type |-> 0, price |-> 0, volume |-> 0, mid_price |-> 0, state_id |-> 0]
    /\ action_frame = [thrown |-> FALSE, action_type |-> 0, price |-> 0, volume |-> 0, mid_price_cents |-> 0, state_id |-> 0]
    /\ action_out = [action_type |-> 0, price |-> 0, volume |-> 0, mid_price |-> 0, state_id |-> 0]
    /\ codec_at = "idle"
    /\ change_value = 0
    /\ change_word = 0
    /\ change_decoded = 0
    /\ change_at = "idle"

\* repeats counts the order updates of the exchange that carried no new
\* fill.
VARIABLES repeats

replay_vars == <<repeats>>

\* no update has been repeated
ReplayConstructed == repeats = 0

\* a delta met by a valid book: delta_in holds the two sides the delta met
\* and the data of the delta
VARIABLES delta_in

delta_vars == <<delta_in>>

DeltaConstructed == delta_in = [bids |-> <<>>, asks |-> <<>>, data |-> [bids |-> <<>>, asks |-> <<>>]]

\* the send queue of the exchange WebSocket client (OKXWebSocket::send_queue_),
\* whether a writeable callback is requested on the connection, and the
\* messages written to the WebSocket so far
VARIABLES send_queue_, writeable_requested, written
send_vars == <<send_queue_, writeable_requested, written>>
\* the queue is empty after construction; nothing is requested or written
SendConstructed == send_queue_ = <<>> /\ writeable_requested = FALSE /\ written = <<>>

\* the WebSocket thread and the buffer processor thread at the fill buffer:
\* the holder of buffer_mutex_, the update add_to_buffer is adding, where
\* process_buffered_updates stands, and its locals
VARIABLES buffer_mutex_, adding, drain_pc, to_process, split_point
drain_vars == <<buffer_mutex_, adding, drain_pc, to_process, split_point>>
\* no thread is in add_to_buffer or in process_buffered_updates
DrainConstructed == buffer_mutex_ = "free" /\ adding = {} /\ drain_pc = "idle" /\ to_process = <<>> /\ split_point = 0

\* what the Lifecycle Engine, the Depth Engine, the Decision Relay, the
\* section model of the threads and the fill buffer never touch
outside_oms == <<depth_vars, relay_vars, lock_vars, buffer_vars, cancel_vars, codec_vars, replay_vars, delta_vars, send_vars, drain_vars>>
outside_depth == <<oms_vars, relay_vars, lock_vars, buffer_vars, cancel_vars, codec_vars, replay_vars, delta_vars, send_vars, drain_vars>>
outside_relay == <<oms_vars, depth_vars, lock_vars, buffer_vars, cancel_vars, codec_vars, replay_vars, delta_vars, send_vars, drain_vars>>
outside_lock == <<oms_vars, depth_vars, relay_vars, buffer_vars, cancel_vars, codec_vars, replay_vars, delta_vars, send_vars, drain_vars>>
outside_buffer == <<oms_vars, depth_vars, relay_vars, lock_vars, cancel_vars, codec_vars, replay_vars, delta_vars, send_vars, drain_vars>>

outside_cancel == <<oms_vars, depth_vars, relay_vars, lock_vars, buffer_vars, codec_vars, replay_vars, delta_vars, send_vars, drain_vars>>

outside_codec == <<oms_vars, depth_vars, relay_vars, lock_vars, buffer_vars, cancel_vars, replay_vars, delta_vars, send_vars, drain_vars>>

outside_delta == <<oms_vars, depth_vars, relay_vars, lock_vars, buffer_vars, cancel_vars, codec_vars, replay_vars, send_vars, drain_vars>>

outside_send == <<oms_vars, depth_vars, relay_vars, lock_vars, buffer_vars, cancel_vars, codec_vars, replay_vars, delta_vars, drain_vars>>

outside_drain == <<oms_vars, depth_vars, relay_vars, lock_vars, buffer_vars, cancel_vars, codec_vars, replay_vars, delta_vars, send_vars>>

vars == <<oms_vars, depth_vars, relay_vars, lock_vars, buffer_vars, cancel_vars, codec_vars, replay_vars, delta_vars, send_vars, drain_vars>>

\* OrderBookHandler's constructor: empty sides, current_state_id_(0)
DepthConstructed ==
    /\ bids = <<>>
    /\ asks = <<>>
    /\ current_state_id_ = 0
    /\ frames = <<>>
    /\ last_action = "none"
    /\ resnapshot_due = FALSE

\* PPOHandler's constructor: empty buffers, state_counter_(0)
RelayConstructed ==
    /\ state_buffer_ = <<>>
    /\ state_counter_ = 0
    /\ action_buffer_ = <<>>
    /\ skeleton_orders = <<>>
    /\ published = [n |-> 0, state_id |-> 0, window |-> <<>>]
    /\ restarted = FALSE

Threads == {"consumer", "websocket", "drain"}

\* no thread is inside a handler, the mutex is free
ThreadsIdle ==
    /\ job = [t \in Threads |-> <<>>]
    /\ inside = [t \in Threads |-> FALSE]
    /\ orders_mutex_ = "free"

\* OKXWebSocket's constructor: empty update_buffer_
BufferConstructed ==
    /\ update_buffer_ = <<>>
    /\ now = 0
    /\ ticks = 0
    /\ in_flight = {}
    /\ arrived = 0
    /\ trade_portions = <<>>

\* ----------------------------------------------------------------- helpers
Abs(x) == IF x < 0 THEN -x ELSE x
Min(a, b) == IF a < b THEN a ELSE b
Max(a, b) == IF a > b THEN a ELSE b

\* x / volume as the code guards it: (volume > 0) ? x / volume : 0.0
Ratio(x, volume) == IF volume > 0 THEN <<x, volume>> ELSE <<0, 1>>
One == <<1, 1>>
Zero == <<0, 1>>
FracPos(f) == f[1] > 0
FracGeOne(f) == f[1] >= f[2]
FracEq(f, g) == f[1] * g[2] = g[1] * f[2]

\* index of the first order of a sequence with this exchange id, 0 if none
Find(ords, okx_order_id) ==
    IF \E i \in 1..Len(ords) : ords[i].okx_order_id = okx_order_id
    THEN CHOOSE i \in 1..Len(ords) :
            /\ ords[i].okx_order_id = okx_order_id
            /\ \A j \in 1..(i - 1) : ords[j].okx_order_id # okx_order_id
    ELSE 0

\* ------------------------------------------------------------- data shapes
\* struct Trade, default-constructed
Trade == [has_active_trade |-> FALSE, is_long |-> FALSE, size |-> 0,
          tradeId |-> NoId, orders |-> <<>>,
          buy_side_cumulative_price |-> 0, buy_side_total_size |-> 0,
          sell_side_cumulative_price |-> 0, sell_side_total_size |-> 0]

get_avg_buy_price_positive(t) ==
    t.buy_side_total_size > 0 /\ t.buy_side_cumulative_price > 0

get_avg_sell_price_positive(t) ==
    t.sell_side_total_size > 0 /\ t.sell_side_cumulative_price > 0

\* OrderInfo::FillPortion; its timestamp is written and never read, and is
\* left out of the record
FillPortion(tradeId, size, timestamp, is_closing) ==
    [tradeId |-> tradeId, size |-> size, is_closing |-> is_closing]

\* an OrderInfo stored in a trade
TradeOrder(state_id, okx_order_id, filled_size, avg_price, state, volume, side, tradeId, execution_percentage, fill_portions) ==
    [state_id |-> state_id, okx_order_id |-> okx_order_id,
     filled_size |-> filled_size, avg_fill_price |-> avg_price,
     is_filled |-> (state = "filled"),
     order_state |-> state, volume |-> volume, side |-> side,
     tradeId |-> tradeId, execution_percentage |-> execution_percentage,
     fill_portions |-> fill_portions]

\* the bundle of OMSHandler state a fill callback reads and writes
State == [orders_ |-> orders_, known_orders_ |-> known_orders_,
          current_trade_ |-> current_trade_, next_trade_ |-> next_trade_,
          has_next_trade_ |-> has_next_trade_,
          published_state_ids_ |-> published_state_ids_,
          maxdd_ |-> maxdd_, reports |-> reports, fill_time |-> 0]

\* ------------------------------------------------------- execution reports
\* one JSON message on execution-exchange / execution.update; closed_orders
\* is the current_trade_.orders a closure message is built from
ExecReport(state_id, okx_id, has_pct, pct) ==
    [is_trade_closed |-> FALSE, state_id |-> state_id, okx_id |-> okx_id,
     has_execution_percentage |-> has_pct, execution_percentage |-> pct,
     filled_portions |-> <<>>, has_reward |-> FALSE, reward |-> Zero,
     closed_orders |-> <<>>]

ClosureReport(portions, has_reward, reward, closed_orders) ==
    [is_trade_closed |-> TRUE, state_id |-> 0, okx_id |-> NoId,
     has_execution_percentage |-> FALSE, execution_percentage |-> Zero,
     filled_portions |-> portions, has_reward |-> has_reward,
     reward |-> reward, closed_orders |-> closed_orders]

\* publishTradeUpdate(state_id, okx_id) without the guard on
\* published_state_ids_
publishTradeUpdate_NoStateIdGuard(st, state_id, okx_id) ==
    IF ~ \E i \in 1..Len(st.current_trade_.orders) :
            /\ st.current_trade_.orders[i].okx_order_id = okx_id
            /\ st.current_trade_.orders[i].filled_size > 0
    THEN st
    ELSE [st EXCEPT
            !.reports = Append(@, ExecReport(state_id, okx_id, FALSE, Zero)),
            !.published_state_ids_ = @ \cup {state_id}]

\* publishTradeUpdate(state_id, okx_id)
publishTradeUpdate(st, state_id, okx_id) ==
    IF state_id \in st.published_state_ids_ THEN st
    ELSE IF ~ \E i \in 1..Len(st.current_trade_.orders) :
                /\ st.current_trade_.orders[i].okx_order_id = okx_id
                /\ st.current_trade_.orders[i].filled_size > 0
    THEN st
    ELSE [st EXCEPT
            !.reports = Append(@, ExecReport(state_id, okx_id, FALSE, Zero)),
            !.published_state_ids_ = @ \cup {state_id}]

\* publishTradeUpdate(state_id, okx_id, execution_percentage) without the
\* guard on published_state_ids_
publishTradeUpdatePct_NoStateIdGuard(st, state_id, okx_id, execution_percentage) ==
    IF ~ FracPos(execution_percentage) THEN st
    ELSE [st EXCEPT
            !.reports = Append(@, ExecReport(state_id, okx_id, TRUE,
                                             execution_percentage)),
            !.published_state_ids_ = @ \cup {state_id}]

\* publishTradeUpdate(state_id, okx_id, execution_percentage)
publishTradeUpdatePct(st, state_id, okx_id, execution_percentage) ==
    IF state_id \in st.published_state_ids_ THEN st
    ELSE IF ~ FracPos(execution_percentage) THEN st
    ELSE [st EXCEPT
            !.reports = Append(@, ExecReport(state_id, okx_id, TRUE,
                                             execution_percentage)),
            !.published_state_ids_ = @ \cup {state_id}]

\* the filled_portions array of a closure message: every order of the trade
\* whose tradeId is the trade's, with its execution_percentage
RECURSIVE ClosurePortions(_, _)
ClosurePortions(ords, tradeId) ==
    IF ords = <<>> THEN <<>>
    ELSE (IF Head(ords).tradeId = tradeId
          THEN << <<Head(ords).okx_order_id, Head(ords).execution_percentage>> >>
          ELSE <<>>) \o ClosurePortions(Tail(ords), tradeId)

\* the reward before the drawdown adjustment, as a fraction
BaseReward(t) ==
    IF t.is_long
    THEN << (t.sell_side_cumulative_price * t.buy_side_total_size
             - t.buy_side_cumulative_price * t.sell_side_total_size) * 100,
            t.sell_side_total_size * t.buy_side_cumulative_price >>
    ELSE << (t.buy_side_cumulative_price * t.sell_side_total_size
             - t.sell_side_cumulative_price * t.buy_side_total_size) * 100,
            t.buy_side_total_size * t.sell_side_cumulative_price >>

\* final_reward *= (1 -/+ 2 |maxdd|), maxdd in hundredths
FinalReward(t, maxdd) ==
    LET base == BaseReward(t) IN
    IF base[1] > 0 THEN <<base[1] * (100 - 2 * Abs(maxdd)), base[2] * 100>>
    ELSE IF base[1] < 0
         THEN <<base[1] * (100 + 2 * Abs(maxdd)), base[2] * 100>>
         ELSE base

\* publishTradeUpdate(state_id, okx_id, is_trade_closed = true, filled_portions)
publishTradeClosure(st) ==
    LET t == st.current_trade_
        has_reward == get_avg_buy_price_positive(t)
                      /\ get_avg_sell_price_positive(t)
        reward == IF has_reward THEN FinalReward(t, st.maxdd_) ELSE Zero
    IN [st EXCEPT !.reports =
            Append(@, ClosureReport(ClosurePortions(t.orders, t.tradeId),
                                    has_reward, reward, t.orders))]

\* the trade transition that ends every closure path
TradeTransition(st) ==
    IF st.has_next_trade_
    THEN [st EXCEPT !.current_trade_ = st.next_trade_,
                    !.has_next_trade_ = FALSE]
    ELSE [st EXCEPT !.current_trade_ = Trade]


\* ------------------------------------------------------ active-orders deque
\* an OrderInfo stored in okx_ws_->orders_
DequeOrder(state_id, volume, okx_order_id, has_okx_id, filled_size, cumulative_filled_size, is_filled, execution_percentage, order_state, side, fill_time) ==
    [state_id |-> state_id, volume |-> volume, okx_order_id |-> okx_order_id,
     has_okx_id |-> has_okx_id, filled_size |-> filled_size,
     cumulative_filled_size |-> cumulative_filled_size,
     is_filled |-> is_filled, execution_percentage |-> execution_percentage,
     order_state |-> order_state, side |-> side, fill_time |-> fill_time]

\* std::sort of the deque by fill_time (equal keys keep their order here)
RECURSIVE InsertByFillTime(_, _)
InsertByFillTime(sorted, o) ==
    IF sorted = <<>> THEN <<o>>
    ELSE IF o.fill_time < Head(sorted).fill_time THEN <<o>> \o sorted
    ELSE <<Head(sorted)>> \o InsertByFillTime(Tail(sorted), o)

RECURSIVE SortByFillTime(_)
SortByFillTime(ords) ==
    IF ords = <<>> THEN <<>>
    ELSE InsertByFillTime(SortByFillTime(SubSeq(ords, 1, Len(ords) - 1)),
                          ords[Len(ords)])

\* the known-orders map rebuilt from the one entry written
KnownPut_ForgetOthers(known, okx_order_id, state_id) == [k \in {okx_order_id} |-> state_id]

\* the known-orders map with okx_order_id -> state_id written
KnownPut(known, okx_order_id, state_id) ==
    [k \in (DOMAIN known) \cup {okx_order_id} |->
        IF k = okx_order_id THEN state_id ELSE known[k]]

\* while (orders_.size() > 300) of the fill callback: remember, then pop_front
RECURSIVE LimitDeque(_)
LimitDeque(st) ==
    IF Len(st.orders_) <= MaxDequeSize THEN st
    ELSE LimitDeque(
           [st EXCEPT
              !.known_orders_ =
                 IF Head(st.orders_).okx_order_id # NoId
                 THEN KnownPut(@, Head(st.orders_).okx_order_id,
                               Head(st.orders_).state_id)
                 ELSE @,
              !.orders_ = Tail(@)])

\* OKXWebSocket::update_order_fill
update_order_fill(ords, okx_order_id, filled_size_in, side, state) ==
    LET i == Find(ords, okx_order_id) IN
    IF i = 0 THEN ords
    ELSE LET order == ords[i]
             prev_cumulative_filled == order.cumulative_filled_size
             filled_size == IF state = "filled" THEN order.volume
                            ELSE filled_size_in
             fill_delta == filled_size - prev_cumulative_filled
             pct == IF state = "filled" THEN One
                    ELSE IF order.volume > 0
                         THEN <<filled_size, order.volume>>
                         ELSE IF filled_size > 0 THEN One ELSE Zero
         IN IF fill_delta > 0
            THEN [ords EXCEPT ![i] =
                    [order EXCEPT
                       !.filled_size = fill_delta,
                       !.cumulative_filled_size = filled_size,
                       !.order_state = state,
                       !.side = side,
                       !.execution_percentage = pct,
                       !.is_filled = IF state = "filled" THEN TRUE
                                     ELSE FracGeOne(pct)]]
            ELSE ords

\* recognition that adopts an untracked exchange id instead of rejecting it
Recognise_AdoptUnknown(st, okx_order_id, filled_size, side, state, fill_time) ==
    IF okx_order_id \in DOMAIN st.known_orders_
    THEN [order_exists |-> TRUE, state_id |-> st.known_orders_[okx_order_id],
          st |-> st]
    ELSE LET i == Find(st.orders_, okx_order_id)
             state_id == IF i # 0 THEN st.orders_[i].state_id ELSE 0
         IN [order_exists |-> TRUE, state_id |-> state_id,
             st |-> [st EXCEPT !.known_orders_ =
                       KnownPut(@, okx_order_id, state_id)]]

\* fill callback, recognition: is the exchange id tracked, and under which
\* state id; a known order missing from the deque is put back
Recognise(st, okx_order_id, filled_size, side, state, fill_time) ==
    IF okx_order_id \in DOMAIN st.known_orders_
    THEN LET state_id == st.known_orders_[okx_order_id]
             in_active_deque == Find(st.orders_, okx_order_id) # 0
             recovered_order ==
                 DequeOrder(state_id, filled_size, okx_order_id, TRUE,
                            filled_size, 0, state = "filled", One, state,
                            side, fill_time)
         IN [order_exists |-> TRUE, state_id |-> state_id,
             st |-> IF ~ in_active_deque /\ filled_size > 0
                    THEN [st EXCEPT !.orders_ =
                            SortByFillTime(Append(@, recovered_order))]
                    ELSE st]
    ELSE LET i == Find(st.orders_, okx_order_id) IN
         IF i # 0
         THEN [order_exists |-> TRUE, state_id |-> st.orders_[i].state_id,
               st |-> [st EXCEPT !.known_orders_ =
                         KnownPut(@, okx_order_id, st.orders_[i].state_id)]]
         ELSE [order_exists |-> FALSE, state_id |-> 0, st |-> st]

\* fill callback, last block: update the order in the deque, erase it when
\* it is fully filled, cap the deque
Housekeeping(st, okx_order_id, filled_size, state) ==
    LET upd(o) ==
            IF o.okx_order_id # okx_order_id THEN o
            ELSE [o EXCEPT
                    !.filled_size = filled_size,
                    !.order_state = state,
                    !.execution_percentage =
                        IF state = "filled" THEN One
                        ELSE Ratio(filled_size, o.volume),
                    !.is_filled = (state = "filled")]
        gone(o) == /\ o.okx_order_id = okx_order_id
                   /\ (state = "filled" \/ FracGeOne(upd(o).execution_percentage))
        updated == [i \in 1..Len(st.orders_) |-> upd(st.orders_[i])]
        erased == {st.orders_[i] : i \in {j \in 1..Len(st.orders_) :
                                             gone(st.orders_[j])}}
        known1 == [k \in (DOMAIN st.known_orders_)
                         \cup {o.okx_order_id : o \in erased} |->
                     IF \E o \in erased : o.okx_order_id = k
                     THEN (CHOOSE o \in erased : o.okx_order_id = k).state_id
                     ELSE st.known_orders_[k]]
    IN LimitDeque([st EXCEPT
                     !.orders_ = SelectSeq(updated, LAMBDA o : ~ gone(o)),
                     !.known_orders_ = known1])


\* ---------------------------------------------------------- trade accounting
RECURSIVE PortionsNet(_, _, _)
PortionsNet(portions, side, tradeId) ==
    IF portions = <<>> THEN 0
    ELSE (IF Head(portions).tradeId = tradeId
          THEN (IF side = "buy" THEN Head(portions).size
                ELSE - Head(portions).size)
          ELSE 0) + PortionsNet(Tail(portions), side, tradeId)

\* sum_of_orders = total_buy_size - total_sell_size over the fill portions
\* of the trade's orders that carry the trade's id
RECURSIVE OrdersNet(_, _)
OrdersNet(ords, tradeId) ==
    IF ords = <<>> THEN 0
    ELSE PortionsNet(Head(ords).fill_portions, Head(ords).side, tradeId)
         + OrdersNet(Tail(ords), tradeId)

sum_of_orders(t) == OrdersNet(t.orders, t.tradeId)

\* "Update cumulative prices and sizes based on order side": the tallies of
\* the side of the trade's record of this order grow by the reported
\* filled_size, when the trade has such a record
UpdateCumulative(t, okx_order_id, filled_size, avg_price) ==
    LET i == Find(t.orders, okx_order_id) IN
    IF i = 0 THEN t
    ELSE IF t.orders[i].side = "buy"
    THEN [t EXCEPT !.buy_side_cumulative_price = @ + filled_size * avg_price,
                   !.buy_side_total_size = @ + filled_size]
    ELSE [t EXCEPT !.sell_side_cumulative_price = @ + filled_size * avg_price,
                   !.sell_side_total_size = @ + filled_size]

\* the "dual-purpose order" block of a closure path: the closing order with
\* its closing portion, its report, and for an opening part the follow-on
\* trade in next_trade_ with its report
DualPurpose(st, okx_order_id, state_id, fill_delta, previous_size, avg_price, side, state, intended_volume, fill_time) ==
    LET t == st.current_trade_
        closing_size == Min(fill_delta, Abs(previous_size))
        opening_size == fill_delta - closing_size
        closing_pct == Ratio(closing_size, intended_volume)
        closing_order ==
            TradeOrder(state_id, okx_order_id, closing_size, avg_price, state,
                       intended_volume, side, t.tradeId, closing_pct,
                       IF closing_size >= OpenThreshold
                       THEN <<FillPortion(t.tradeId, closing_size, fill_time,
                                          TRUE)>>
                       ELSE <<>>)
        st1 == [st EXCEPT !.current_trade_.orders = Append(@, closing_order)]
        st2 == publishTradeUpdatePct(st1, state_id, okx_order_id, closing_pct)
        opening_pct == Ratio(opening_size, intended_volume)
        opening_order ==
            TradeOrder(state_id, okx_order_id, opening_size, avg_price, state,
                       intended_volume, side, okx_order_id, opening_pct,
                       <<FillPortion(okx_order_id, opening_size, fill_time,
                                     FALSE)>>)
        new_trade == [Trade EXCEPT !.has_active_trade = TRUE,
                                   !.is_long = (side = "buy"),
                                   !.size = opening_size,
                                   !.tradeId = okx_order_id,
                                   !.orders = <<opening_order>>]
    IN IF opening_size >= OpenThreshold
       THEN publishTradeUpdatePct(
                [st2 EXCEPT !.next_trade_ = new_trade,
                            !.has_next_trade_ = TRUE],
                state_id, okx_order_id, opening_pct)
       ELSE st2

\* a closure path that publishes the closure message only from the
\* dual-purpose block
ClosurePath_SilentWhenRecorded(st, okx_order_id, state_id, fill_delta, previous_size, avg_price, side, state, intended_volume, fill_time) ==
    IF Find(st.current_trade_.orders, okx_order_id) # 0
    THEN TradeTransition(st)
    ELSE TradeTransition(publishTradeClosure(
             DualPurpose(st, okx_order_id, state_id, fill_delta, previous_size,
                         avg_price, side, state, intended_volume, fill_time)))

\* a closure path: the dual-purpose block when the trade has no record of
\* the order, the closure message, the trade transition
ClosurePath(st, okx_order_id, state_id, fill_delta, previous_size, avg_price, side, state, intended_volume, fill_time) ==
    LET closing_order_found == Find(st.current_trade_.orders, okx_order_id) # 0
        st1 == IF closing_order_found THEN st
               ELSE DualPurpose(st, okx_order_id, state_id, fill_delta,
                                previous_size, avg_price, side, state,
                                intended_volume, fill_time)
    IN TradeTransition(publishTradeClosure(st1))

\* fill callback, no active trade
NoActiveTrade(st, okx_order_id, state_id, filled_size, avg_price, side, state, intended_volume, fill_time) ==
    LET t == st.current_trade_ IN
    IF filled_size > 0
       /\ (t.size = 0 \/ (t.is_long /\ side = "buy")
                      \/ (~ t.is_long /\ side = "sell"))
    THEN LET order == TradeOrder(state_id, okx_order_id, filled_size, avg_price, state,
                                 intended_volume, side, okx_order_id,
                                 Ratio(filled_size, intended_volume),
                                 <<FillPortion(okx_order_id, filled_size,
                                               fill_time, FALSE)>>)
             st1 == [st EXCEPT !.current_trade_ =
                        [t EXCEPT !.has_active_trade = TRUE,
                                  !.is_long = (side = "buy"),
                                  !.size = filled_size,
                                  !.tradeId = okx_order_id,
                                  !.orders = Append(@, order)]]
         IN publishTradeUpdate(st1, state_id, okx_order_id)
    ELSE st


\* fill callback, active trade, fill on the trade's side.  The result says
\* whether the callback returned from a closure path.
SameDirection(st, okx_order_id, state_id, filled_size, avg_price, side, state, intended_volume, fill_time) ==
    LET t == st.current_trade_
        i == Find(t.orders, okx_order_id)
        previous_filled_size == IF i = 0 THEN 0 ELSE t.orders[i].filled_size
        fill_delta == filled_size - previous_filled_size
        previous_size == t.size
        initial == IF i # 0 /\ t.orders[i].fill_portions = <<>>
                      /\ previous_filled_size > 0
                   THEN <<FillPortion(t.tradeId, previous_filled_size,
                                      fill_time - 1, FALSE)>>
                   ELSE <<>>
        updated_order ==
            [t.orders[i] EXCEPT
               !.fill_portions = @ \o initial
                   \o <<FillPortion(t.tradeId, fill_delta, fill_time, FALSE)>>,
               !.filled_size = filled_size,
               !.avg_fill_price = avg_price,
               !.order_state = state,
               !.side = side,
               !.execution_percentage =
                   IF state = "filled" THEN One
                   ELSE Ratio(filled_size, t.orders[i].volume),
               !.is_filled = (state = "filled")]
        new_order ==
            TradeOrder(state_id, okx_order_id, filled_size, avg_price, state,
                       intended_volume, side, t.tradeId,
                       Ratio(filled_size, intended_volume),
                       <<FillPortion(t.tradeId, filled_size, fill_time,
                                     FALSE)>>)
        orders1 == IF i # 0 THEN [t.orders EXCEPT ![i] = updated_order]
                   ELSE IF filled_size > 0 THEN Append(t.orders, new_order)
                   ELSE t.orders
        sum == OrdersNet(orders1, t.tradeId)
        t1 == [t EXCEPT !.orders = orders1, !.size = sum]
        t2 == UpdateCumulative(t1, okx_order_id, filled_size, avg_price)
        st2 == [st EXCEPT !.current_trade_ = t2]
    IN IF t2.size = 0
       THEN [returned |-> TRUE,
             st |-> ClosurePath(st2, okx_order_id, state_id, fill_delta,
                                previous_size, avg_price, side, state,
                                intended_volume, fill_time)]
       ELSE [returned |-> FALSE,
             st |-> IF filled_size > 0
                    THEN publishTradeUpdate(st2, state_id, okx_order_id)
                    ELSE st2]

\* fill callback, active trade, fill against the trade's side
OppositeDirection(st, okx_order_id, state_id, filled_size, avg_price, side, state, intended_volume, fill_time) ==
    LET t == st.current_trade_
        previous_size == t.size
        i == Find(t.orders, okx_order_id)
        previous_filled == IF i = 0 THEN 0 ELSE t.orders[i].filled_size
        fill_delta == filled_size - previous_filled
        closing_size == Min(fill_delta, Abs(previous_size))
        opening_size == fill_delta - closing_size
        closed_size == IF previous_size > 0
                       THEN Max(0, previous_size - closing_size)
                       ELSE Min(0, previous_size + closing_size)
        \* still a position, and an opening part
        t0 == IF closed_size # 0 /\ opening_size >= OpenThreshold
              THEN [t EXCEPT !.is_long = (side = "buy"),
                             !.size = IF side = "buy" THEN opening_size
                                      ELSE - opening_size]
              ELSE [t EXCEPT !.size = closed_size]
        updated_order ==
            [t.orders[i] EXCEPT
               !.filled_size = IF opening_size >= OpenThreshold
                               THEN opening_size ELSE filled_size,
               !.avg_fill_price = avg_price,
               !.order_state = state,
               !.side = side,
               !.tradeId = t.tradeId,
               !.execution_percentage =
                   IF opening_size >= OpenThreshold
                   THEN Ratio(opening_size, t.orders[i].volume)
                   ELSE Ratio(filled_size, t.orders[i].volume),
               !.fill_portions = @
                   \o (IF closing_size >= OpenThreshold
                       THEN <<FillPortion(t.tradeId, closing_size, fill_time,
                                          TRUE)>>
                       ELSE <<>>)
                   \o (IF opening_size >= OpenThreshold
                       THEN <<FillPortion(t.tradeId, opening_size, fill_time,
                                          FALSE)>>
                       ELSE <<>>)]
        pure_closing_order ==
            TradeOrder(state_id, okx_order_id, filled_size, avg_price, state,
                       intended_volume, side, t.tradeId,
                       Ratio(filled_size, intended_volume),
                       <<FillPortion(t.tradeId, filled_size, fill_time,
                                     TRUE)>>)
        orders1 == IF i # 0 THEN [t.orders EXCEPT ![i] = updated_order]
                   ELSE IF fill_delta > 0 /\ opening_size < OpenThreshold
                           /\ closing_size > 0
                        THEN Append(t.orders, pure_closing_order)
                        ELSE t.orders
        sum == OrdersNet(orders1, t.tradeId)
        t1 == [t0 EXCEPT !.orders = orders1, !.size = sum,
                         !.is_long = (sum >= 0)]
        t2 == UpdateCumulative(t1, okx_order_id, filled_size, avg_price)
        st2 == [st EXCEPT !.current_trade_ = t2]
    IN IF closed_size = 0
       THEN [returned |-> TRUE,
             st |-> ClosurePath([st EXCEPT !.current_trade_.size = 0],
                                okx_order_id, state_id, fill_delta,
                                previous_size, avg_price, side, state,
                                intended_volume, fill_time)]
       ELSE IF t2.size = 0
       THEN [returned |-> TRUE,
             st |-> ClosurePath(st2, okx_order_id, state_id, fill_delta,
                                previous_size, avg_price, side, state,
                                intended_volume, fill_time)]
       ELSE [returned |-> FALSE,
             st |-> IF filled_size > 0
                    THEN publishTradeUpdate(st2, state_id, okx_order_id)
                    ELSE st2]

\* the order fill callback registered in OMSHandler::OMSHandler
order_fill_callback(st0, okx_order_id, filled_size, avg_price, side, state, fill_time) ==
    LET st == [st0 EXCEPT !.fill_time = fill_time]
        rec == Recognise(st, okx_order_id, filled_size, side, state, fill_time)
        st1 == [rec.st EXCEPT !.orders_ =
                   update_order_fill(@, okx_order_id, filled_size, side, state)]
        k == Find(st1.orders_, okx_order_id)
        intended_volume == IF k = 0 THEN 0 ELSE st1.orders_[k].volume
        state_id == rec.state_id
        t == st1.current_trade_
        is_same_direction == (t.is_long /\ side = "buy")
                             \/ (~ t.is_long /\ side = "sell")
        res == IF ~ t.has_active_trade
               THEN [returned |-> FALSE,
                     st |-> NoActiveTrade(st1, okx_order_id, state_id,
                                          filled_size, avg_price, side, state,
                                          intended_volume, fill_time)]
               ELSE IF is_same_direction
               THEN SameDirection(st1, okx_order_id, state_id, filled_size,
                                  avg_price, side, state, intended_volume,
                                  fill_time)
               ELSE OppositeDirection(st1, okx_order_id, state_id, filled_size,
                                      avg_price, side, state, intended_volume,
                                      fill_time)
    IN IF ~ rec.order_exists THEN st
       ELSE IF res.returned THEN res.st
       ELSE Housekeeping(res.st, okx_order_id, filled_size, state)


\* ------------------------------------------------------------------ actions
OmsConstructed ==
    /\ orders_ = <<>>
    /\ known_orders_ = [k \in {} |-> 0]
    /\ current_trade_ = Trade
    /\ next_trade_ = Trade
    /\ has_next_trade_ = FALSE
    /\ published_state_ids_ = {}
    /\ maxdd_ = 0
    /\ reports = <<>>
    /\ exch = <<>>

Init == OmsConstructed /\ DepthConstructed /\ RelayConstructed /\ ThreadsIdle /\ BufferConstructed /\ CancelConstructed /\ CodecConstructed /\ ReplayConstructed /\ DeltaConstructed /\ SendConstructed /\ DrainConstructed

\* OKXWebSocket::store_order: push_back, then drop from the front above 300
store_order(ords, order) ==
    LET pushed == Append(ords, order) IN
    IF Len(pushed) > MaxDequeSize
    THEN SubSeq(pushed, Len(pushed) - MaxDequeSize + 1, Len(pushed))
    ELSE pushed

\* the exchange's clock: the lots it has filled so far
RECURSIVE FillClock(_)
FillClock(book) ==
    IF book = <<>> THEN 0 ELSE Head(book).cum + FillClock(Tail(book))

\* state ids are interchangeable: a new order reuses a state id already in
\* use or takes the least unused one
UsableStateIds(book) ==
    {s \in StateIds : \A r \in 1..(s - 1) :
                         \E i \in 1..Len(book) : book[i].state_id = r}

\* the volume of all orders the exchange has booked
RECURSIVE TotalVolume(_)
TotalVolume(book) ==
    IF book = <<>> THEN 0 ELSE Head(book).volume + TotalVolume(Tail(book))

\* the limit prices of the engine's orders: it bids at 300 and asks at 303
Quotes(side) == IF side = "buy" THEN {300} ELSE {303}

\* the position of the account at the exchange, in lots
RECURSIVE Position(_)
Position(book) ==
    IF book = <<>> THEN 0
    ELSE (IF Head(book).side = "buy" THEN Head(book).cum ELSE - Head(book).cum)
         + Position(Tail(book))

\* the exchange has answered every order request sent so far
AllAcked(book) == \A i \in 1..Len(book) : book[i].acked \/ book[i].foreign

\* OKXWebSocket::send_order: the limit order enters the deque as pending; the
\* exchange books it under the next exchange id.  Requests are sent one at a
\* time: the response to the previous request has been handled.
PlaceOrder(state_id, side, size, price) ==
    /\ Len(exch) < MaxOrders
    /\ price \in Quotes(side)
    /\ AllAcked(exch)
    /\ state_id \in UsableStateIds(exch)
    /\ TotalVolume(exch) + size <= MaxTotalVolume
    /\ orders_' = store_order(orders_,
                      DequeOrder(state_id, size, NoId, FALSE, 0, 0, FALSE,
                                 Ratio(0, size), "pending", side, 0))
    /\ exch' = Append(exch, [state_id |-> state_id, side |-> side,
                             volume |-> size, px |-> price, cum |-> 0,
                             acked |-> FALSE, foreign |-> FALSE])
    /\ UNCHANGED <<known_orders_, current_trade_, next_trade_, has_next_trade_,
                   published_state_ids_, maxdd_, reports>>
    /\ UNCHANGED outside_oms

\* the exchange books a one-lot order on the account that this engine did not
\* submit: its exchange id never reaches the deque or the known-orders map
ForeignOrder(side, price) ==
    /\ Len(exch) < MaxOrders
    /\ AllAcked(exch)
    /\ TotalVolume(exch) + 1 <= MaxTotalVolume
    /\ exch' = Append(exch, [state_id |-> 0, side |-> side, volume |-> 1,
                             px |-> price,
                             cum |-> 0, acked |-> FALSE, foreign |-> TRUE])
    /\ UNCHANGED <<orders_, known_orders_, current_trade_, next_trade_,
                   has_next_trade_, published_state_ids_, maxdd_, reports>>
    /\ UNCHANGED outside_oms

\* OKXWebSocket::update_order_id without the change of order_state
update_order_id_StaysPending(ords, state_id, okx_order_id) == IF \E i \in 1..Len(ords) : ords[i].state_id = state_id /\ ~ ords[i].has_okx_id THEN LET i == CHOOSE j \in 1..Len(ords) : ords[j].state_id = state_id /\ ~ ords[j].has_okx_id /\ \A h \in 1..(j - 1) : ~ (ords[h].state_id = state_id /\ ~ ords[h].has_okx_id) IN [ords EXCEPT ![i] = [@ EXCEPT !.okx_order_id = okx_order_id, !.has_okx_id = TRUE]] ELSE ords

\* OKXWebSocket::update_order_id
update_order_id(ords, state_id, okx_order_id) ==
    IF \E i \in 1..Len(ords) : ords[i].state_id = state_id /\ ~ ords[i].has_okx_id
    THEN LET i == CHOOSE j \in 1..Len(ords) :
                    /\ ords[j].state_id = state_id /\ ~ ords[j].has_okx_id
                    /\ \A h \in 1..(j - 1) :
                          ~ (ords[h].state_id = state_id /\ ~ ords[h].has_okx_id)
         IN [ords EXCEPT ![i] = [@ EXCEPT !.okx_order_id = okx_order_id,
                                          !.has_okx_id = TRUE,
                                          !.order_state = "live"]]
    ELSE ords

\* the order id callback: the exchange's answer to an order request
OrderAck(okx_order_id) ==
    /\ okx_order_id \in 1..Len(exch)
    /\ ~ exch[okx_order_id].acked
    /\ ~ exch[okx_order_id].foreign
    /\ orders_' = update_order_id(orders_, exch[okx_order_id].state_id,
                                  okx_order_id)
    /\ known_orders_' = KnownPut(known_orders_, okx_order_id,
                                 exch[okx_order_id].state_id)
    /\ exch' = [exch EXCEPT ![okx_order_id].acked = TRUE]
    /\ UNCHANGED <<current_trade_, next_trade_, has_next_trade_,
                   published_state_ids_, maxdd_, reports>>
    /\ UNCHANGED outside_oms

\* OKXWebSocket::handle_position_update: maxdd only moves to a more
\* negative uplRatio.  The exchange reports an unrealised loss only for a
\* position that is open.
PositionUpdate(uplRatio) ==
    /\ Position(exch) # 0
    /\ uplRatio < 0
    /\ uplRatio < maxdd_
    /\ maxdd_' = uplRatio
    /\ UNCHANGED <<orders_, known_orders_, current_trade_, next_trade_,
                   has_next_trade_, published_state_ids_, reports, exch>>
    /\ UNCHANGED outside_oms

\* an order update of the exchange reaches the fill callback: the order's
\* accumulated fill grows to filled_size, at the order's limit price.  The
\* exchange answers an order request before it reports fills of that order.
Fill(okx_order_id, filled_size) ==
    /\ okx_order_id \in 1..Len(exch)
    /\ AllAcked(exch)
    /\ filled_size > exch[okx_order_id].cum
    /\ filled_size <= exch[okx_order_id].volume
    /\ LET state == IF filled_size = exch[okx_order_id].volume
                    THEN "filled" ELSE "partially_filled"
           st == order_fill_callback(State, okx_order_id, filled_size,
                                     exch[okx_order_id].px,
                                     exch[okx_order_id].side,
                                     state, FillClock(exch) + 1)
       IN /\ orders_' = st.orders_
          /\ known_orders_' = st.known_orders_
          /\ current_trade_' = st.current_trade_
          /\ next_trade_' = st.next_trade_
          /\ has_next_trade_' = st.has_next_trade_
          /\ published_state_ids_' = st.published_state_ids_
          /\ reports' = st.reports
    /\ exch' = [exch EXCEPT ![okx_order_id].cum = filled_size]
    /\ UNCHANGED maxdd_
    /\ UNCHANGED outside_oms

Next ==
    \/ \E state_id \in StateIds, side \in Sides, size \in Volumes,
          price \in Prices : PlaceOrder(state_id, side, size, price)
    \/ \E side \in {"buy"}, price \in {300} : ForeignOrder(side, price)
    \/ \E okx_order_id \in 1..MaxOrders : OrderAck(okx_order_id)
    \/ \E uplRatio \in UplRatios : PositionUpdate(uplRatio)
    \/ \E okx_order_id \in 1..MaxOrders, filled_size \in Volumes :
          Fill(okx_order_id, filled_size)

Spec == Init /\ [][Next]_vars

\* ------------------------------------------------------------- properties
\* the fill of this step, when the step is an order update of the exchange
FillStep == \E okx \in 1..Len(exch) :
                Len(exch') = Len(exch) /\ exch'[okx].cum # exch[okx].cum
FilledId == CHOOSE okx \in 1..Len(exch) : exch'[okx].cum # exch[okx].cum
Opposite(t, side) == (t.is_long /\ side = "sell") \/ (~ t.is_long /\ side = "buy")

\* the reports this step published
NewReports == SubSeq(reports', Len(reports) + 1, Len(reports'))
Closures(rs) == SelectSeq(rs, LAMBDA r : r.is_trade_closed)
PerExec(rs) == SelectSeq(rs, LAMBDA r : ~ r.is_trade_closed)

\* the part of a fill that opens the follow-on trade: the fill delta against
\* the trade's record of the order, less the part that closes the trade
OpeningPart(t, okx, filled_size) ==
    LET i == Find(t.orders, okx)
        fill_delta == filled_size - (IF i = 0 THEN 0 ELSE t.orders[i].filled_size)
    IN fill_delta - Min(fill_delta, Abs(t.size))

\* C1: the net size of the active trade is the sum of the buy fill portions
\* assigned to the trade minus the sum of its sell fill portions, so it is
\* negative while the trade is short.
C1_NetSizeIsBuyMinusSell ==
    /\ current_trade_.size = sum_of_orders(current_trade_)
    /\ (current_trade_.has_active_trade /\ ~ current_trade_.is_long
           => current_trade_.size < 0)

\* C2: a fill on the side opposite to the active trade whose opening part is
\* at least 0.001 leaves a follow-on trade as the current trade: its direction
\* is the fill's side, its net size the opening part, its trade id the fill's
\* exchange order id, whether or not the closed trade had a record of the order.
C2_FlipOpensFollowOnTrade ==
    [][ (/\ FillStep
         /\ ~ exch[FilledId].foreign
         /\ current_trade_.has_active_trade
         /\ Opposite(current_trade_, exch[FilledId].side)
         /\ OpeningPart(current_trade_, FilledId, exch'[FilledId].cum)
               >= OpenThreshold)
        => /\ current_trade_'.has_active_trade
           /\ current_trade_'.is_long = (exch[FilledId].side = "buy")
           /\ Abs(current_trade_'.size)
                 = OpeningPart(current_trade_, FilledId, exch'[FilledId].cum)
           /\ current_trade_'.tradeId = FilledId ]_vars

\* the reward of a trade that one order opened from flat in a single fill of
\* q lots at p1 and that the order of this step closes in a single fill of q
\* lots at p2, percentage of the entry price times 100
SimpleRoundTrip ==
    /\ FillStep
    /\ maxdd_ = 0
    /\ current_trade_.has_active_trade
    /\ Len(current_trade_.orders) = 1
    /\ LET o == current_trade_.orders[1] IN
          /\ o.is_filled /\ o.filled_size = o.volume
          /\ Len(o.fill_portions) = 1
          /\ current_trade_.tradeId = o.okx_order_id
          /\ ~ exch[FilledId].foreign
          /\ exch[FilledId].side # o.side
          /\ exch[FilledId].cum = 0
          /\ exch'[FilledId].cum = exch[FilledId].volume
          /\ exch[FilledId].volume = o.volume
ExpectedReward(p1, p2) == <<(p2 - p1) * 10000, p1>>

\* C3: with no drawdown, a trade opened from flat by a buy of q at p1 and
\* closed by a sell of q at p2 publishes the reward ((p2 - p1) / p1) x 10000
\* in its closure report; a trade opened by a sell at p1 and closed by a buy
\* at p2 publishes ((p1 - p2) / p2) x 10000.
C3_RoundTripReward ==
    [][ SimpleRoundTrip =>
          LET o == current_trade_.orders[1]
              p2 == exch[FilledId].px
              r == reports'[Len(reports')]
          IN /\ Len(reports') > Len(reports)
             /\ r.is_trade_closed
             /\ r.has_reward
             /\ FracEq(r.reward,
                       IF o.side = "buy"
                       THEN ExpectedReward(o.avg_fill_price, p2)
                       ELSE ExpectedReward(p2, o.avg_fill_price)) ]_vars

TradeEnds ==
    /\ current_trade_.has_active_trade
    /\ \/ ~ current_trade_'.has_active_trade
       \/ current_trade_'.tradeId # current_trade_.tradeId

OrderIds(ords) == {ords[i].okx_order_id : i \in 1..Len(ords)}

FlipStep ==
    /\ FillStep
    /\ ~ exch[FilledId].foreign
    /\ current_trade_.has_active_trade
    /\ Opposite(current_trade_, exch[FilledId].side)
    /\ OpeningPart(current_trade_, FilledId, exch'[FilledId].cum) >= OpenThreshold

\* C7: a fill that closes the trade with an opening part of at least 0.001
\* publishes two per-execution reports for the fill, the closing fraction and
\* the opening fraction, and then the closure report.
C7_FlipPublishesTwoReports ==
    [][ FlipStep =>
          LET opening == OpeningPart(current_trade_, FilledId, exch'[FilledId].cum)
              closing == Abs(current_trade_.size)
              volume == exch[FilledId].volume
          IN /\ Len(NewReports) = 3
             /\ \A n \in 1..2 :
                   /\ ~ NewReports[n].is_trade_closed
                   /\ NewReports[n].okx_id = FilledId
                   /\ NewReports[n].has_execution_percentage
             /\ FracEq(NewReports[1].execution_percentage, <<closing, volume>>)
             /\ FracEq(NewReports[2].execution_percentage, <<opening, volume>>)
             /\ NewReports[3].is_trade_closed ]_vars

\* C8: every fill delta of an order publishes a per-execution report for the
\* order, so an order that fills in k deltas has k per-execution reports.
C8_OneReportPerFillDelta ==
    [][ (/\ FillStep
         /\ ~ exch[FilledId].foreign
         /\ ~ (current_trade_.has_active_trade
               /\ Opposite(current_trade_, exch[FilledId].side)))
        => /\ Len(PerExec(NewReports)) = 1
           /\ PerExec(NewReports)[1].okx_id = FilledId ]_vars

RECURSIVE PortionCount(_)
PortionCount(ords) ==
    IF ords = <<>> THEN 0
    ELSE Len(Head(ords).fill_portions) + PortionCount(Tail(ords))

\* C9: the filled_portions array of a closure report has one entry per fill
\* portion of every order of the closed trade, each value the execution
\* fraction as a percent in [0, 100], 100 for a fully executed order.
C9_FilledPortionsPerPortionInPercent ==
    \A i \in 1..Len(reports) :
       reports[i].is_trade_closed =>
          LET r == reports[i] IN
          /\ Len(r.filled_portions) = PortionCount(r.closed_orders)
          /\ \A n \in 1..Len(r.filled_portions) :
                LET okx == r.filled_portions[n][1]
                    value == r.filled_portions[n][2]
                    k == Find(r.closed_orders, okx)
                IN /\ k # 0
                   /\ value[1] >= 0 /\ value[1] <= 100 * value[2]
                   /\ (r.closed_orders[k].is_filled
                       /\ Len(r.closed_orders[k].fill_portions) = 1)
                         => FracEq(value, <<100, 1>>)

\* C10: a fill whose exchange id is in neither the known-orders map nor the
\* active-orders deque is dropped: trade, next trade, deque, known-orders map
\* and published state ids are unchanged and no report is published.
C10_UnknownFillDropped ==
    [][ (/\ FillStep
         /\ FilledId \notin DOMAIN known_orders_
         /\ Find(orders_, FilledId) = 0)
        => UNCHANGED <<current_trade_, next_trade_, has_next_trade_, orders_,
                       known_orders_, published_state_ids_, reports>> ]_vars

\* an order the engine never sent has been filled while a trade was active
\* and orders were resting in the deque
C10_Witness ==
    /\ current_trade_.has_active_trade
    /\ orders_ # <<>>
    /\ \E a \in 1..Len(exch) : exch[a].foreign /\ exch[a].cum > 0

\* ======================================================== Depth Engine
\* The book holds REQUIRED_LEVELS levels a side (400 in the source) over the
\* prices of DepthPrices; a handler run stops after MaxFrames frames.
REQUIRED_LEVELS == 2
MaxFrames == 2

MAX_STATE_ID == 65535

\* the sequence id the run starts from: 0 after construction, or the id the
\* engine has reached after 65535 frames and a snapshot without levels
StartIds == {0, MAX_STATE_ID}

\* the prices of the messages: one more than a side holds
DepthPrices == 1..(REQUIRED_LEVELS + 1)
\* the size of a level of a message: "0" removes the level
LevelVolumes == {0, 1}
\* a level of a message, [price, size, _, orders]; the order count is carried
\* along with the volume and is left out
OrderBookLevel(price, volume) == [price |-> price, volume |-> volume]
MessageLevels == {OrderBookLevel(p, v) : p \in DepthPrices, v \in LevelVolumes}

compareAsks(a, b) == a.price < b.price
compareBids(a, b) == a.price > b.price
Before(a, b, is_bids) == IF is_bids THEN compareBids(a, b) ELSE compareAsks(a, b)

\* std::sort(side.begin(), side.end(), compareBids / compareAsks)
RECURSIVE SortedInsert(_, _, _)
SortedInsert(side, level, is_bids) == IF side = <<>> THEN <<level>> ELSE IF Before(level, Head(side), is_bids) THEN <<level>> \o side ELSE <<Head(side)>> \o SortedInsert(Tail(side), level, is_bids)
RECURSIVE SortSide(_, _)
SortSide(side, is_bids) == IF side = <<>> THEN <<>> ELSE SortedInsert(SortSide(Tail(side), is_bids), Head(side), is_bids)

\* the binary search of updatePriceLevel, indices from 0 as in the code
RECURSIVE Locate(_, _, _, _, _)
Locate(side, price, is_bids, left, right) == IF left >= right THEN [found |-> FALSE, at |-> left] ELSE LET mid == (left + right) \div 2 mid_price == side[mid + 1].price IN IF mid_price = price THEN [found |-> TRUE, at |-> mid] ELSE IF (is_bids /\ mid_price > price) \/ (~ is_bids /\ mid_price < price) THEN Locate(side, price, is_bids, mid + 1, right) ELSE Locate(side, price, is_bids, left, mid)

EraseAt(side, at) == SubSeq(side, 1, at) \o SubSeq(side, at + 2, Len(side))
InsertAt(side, at, level) == SubSeq(side, 1, at) \o <<level>> \o SubSeq(side, at + 1, Len(side))

\* OrderBookHandler::updatePriceLevel without the erase of a level whose new
\* volume is 0
updatePriceLevel_NoErase(side, level, is_bids) == LET hit == Locate(side, level.price, is_bids, 0, Len(side)) IN IF hit.found THEN (IF level.volume <= 0 THEN side ELSE [side EXCEPT ![hit.at + 1] = level]) ELSE IF level.volume <= 0 THEN side ELSE InsertAt(side, hit.at, level)

\* OrderBookHandler::updatePriceLevel
updatePriceLevel(side, level, is_bids) == LET hit == Locate(side, level.price, is_bids, 0, Len(side)) IN IF hit.found THEN (IF level.volume <= 0 THEN EraseAt(side, hit.at) ELSE [side EXCEPT ![hit.at + 1] = level]) ELSE IF level.volume <= 0 THEN side ELSE InsertAt(side, hit.at, level)

RECURSIVE ApplyLevels(_, _, _)
ApplyLevels(side, levels, is_bids) == IF levels = <<>> THEN side ELSE ApplyLevels(updatePriceLevel(side, Head(levels), is_bids), Tail(levels), is_bids)

\* OrderBookHandler::validateOrderBookState without its level count test
validateOrderBookState_AnyCount(b, a) == TRUE

\* OrderBookHandler::validateOrderBookState: FALSE is the runtime_error
validateOrderBookState(b, a) == Len(b) = REQUIRED_LEVELS /\ Len(a) = REQUIRED_LEVELS

\* OrderBookHandler::processOrderBookUpdate: asks, then bids, then validate
processOrderBookUpdate(b, a, data) == LET new_asks == SortSide(ApplyLevels(a, data.asks, FALSE), FALSE) new_bids == SortSide(ApplyLevels(b, data.bids, TRUE), TRUE) IN [bids |-> new_bids, asks |-> new_asks, valid |-> validateOrderBookState(new_bids, new_asks)]

\* OrderBookHandler::handleSnapshot: clear, keep the levels with volume > 0,
\* sort, validate
handleSnapshot(data) == LET new_bids == SortSide(SelectSeq(data.bids, LAMBDA l : l.volume > 0), TRUE) new_asks == SortSide(SelectSeq(data.asks, LAMBDA l : l.volume > 0), FALSE) IN [bids |-> new_bids, asks |-> new_asks, valid |-> validateOrderBookState(new_bids, new_asks)]

\* OrderBookHandler::incrementStateId without the modulus
incrementStateId_NoWrap(id) == id + 1

\* OrderBookHandler::incrementStateId
incrementStateId(id) == (id + 1) % (MAX_STATE_ID + 1)

\* OrderBookHandler::publishOrderBookUpdate: the frame carries
\* current_state_id_, which is then incremented
publishOrderBookUpdate ==
    /\ frames' = Append(frames, current_state_id_)
    /\ current_state_id_' = incrementStateId(current_state_id_)

\* a rejection that emits no frame and still moves current_state_id_ on
Rejected_AdvancesId == frames' = frames /\ current_state_id_' = incrementStateId(current_state_id_)

\* the runtime_error of validateOrderBookState leaves handleMessage before
\* publishOrderBookUpdate and is caught by the receive callback
Rejected == UNCHANGED <<frames, current_state_id_>>

\* the levels of one side of a snapshot: pairwise distinct prices, listed by
\* ascending price
RECURSIVE Listing(_, _)
Listing(f, p) == IF p \notin DepthPrices THEN <<>> ELSE (IF f[p] < 0 THEN <<>> ELSE <<OrderBookLevel(p, f[p])>>) \o Listing(f, p + 1)
SnapshotSides == {Listing(f, 1) : f \in [DepthPrices -> LevelVolumes \cup {-1}]}
\* a side with the first REQUIRED_LEVELS prices, and the same side one level
\* short
PlainSides == {Listing([p \in DepthPrices |-> IF p <= n THEN 1 ELSE -1], 1) : n \in {REQUIRED_LEVELS - 1, REQUIRED_LEVELS}}
\* the snapshots: any listing on one side, a plain one on the other
Snapshots == {[bids |-> b, asks |-> a] : b \in SnapshotSides, a \in PlainSides} \cup {[bids |-> b, asks |-> a] : b \in PlainSides, a \in SnapshotSides}

\* the deltas: two levels at most, on one side or one on each
OneLevel == {<<l>> : l \in MessageLevels}
TwoLevels == {<<l, m>> : l \in MessageLevels, m \in MessageLevels}
Deltas == {[bids |-> b, asks |-> <<>>] : b \in {<<>>} \cup OneLevel \cup TwoLevels} \cup {[bids |-> <<>>, asks |-> a] : a \in OneLevel \cup TwoLevels} \cup {[bids |-> b, asks |-> a] : b \in OneLevel, a \in OneLevel}

DepthInit ==
    /\ OmsConstructed
    /\ DrainConstructed
    /\ SendConstructed
    /\ DeltaConstructed
    /\ ReplayConstructed
    /\ CodecConstructed
    /\ CancelConstructed
    /\ RelayConstructed
    /\ ThreadsIdle
    /\ BufferConstructed
    /\ bids = <<>>
    /\ asks = <<>>
    /\ current_state_id_ \in StartIds
    /\ frames = <<>>
    /\ last_action = "none"
    /\ resnapshot_due = FALSE

\* handleMessage, action "snapshot", with a handleSnapshot that sets
\* current_state_id_ back to 0 before the frame is built
Snapshot_ResetsSequence(data) ==
    /\ Len(frames) < MaxFrames
    /\ LET r == handleSnapshot(data)
       IN /\ bids' = r.bids
          /\ asks' = r.asks
          /\ IF r.valid THEN frames' = Append(frames, 0) /\ current_state_id_' = incrementStateId(0) ELSE Rejected
          /\ resnapshot_due' = IF r.valid THEN FALSE ELSE resnapshot_due
    /\ last_action' = "snapshot"
    /\ UNCHANGED outside_depth

\* handleMessage, action "snapshot"
Snapshot(data) ==
    /\ Len(frames) < MaxFrames
    /\ LET r == handleSnapshot(data)
       IN /\ bids' = r.bids
          /\ asks' = r.asks
          /\ IF r.valid THEN publishOrderBookUpdate ELSE Rejected
          /\ resnapshot_due' = IF r.valid THEN FALSE ELSE resnapshot_due
    /\ last_action' = "snapshot"
    /\ UNCHANGED outside_depth

\* handleMessage, action "update"
Update(data) ==
    /\ Len(frames) < MaxFrames
    /\ LET r == processOrderBookUpdate(bids, asks, data)
       IN /\ bids' = r.bids
          /\ asks' = r.asks
          /\ IF r.valid THEN publishOrderBookUpdate ELSE Rejected
          /\ resnapshot_due' = IF r.valid THEN resnapshot_due ELSE TRUE
    /\ last_action' = "update"
    /\ UNCHANGED outside_depth

DepthNext ==
    \/ \E data \in Snapshots : Snapshot(data)
    \/ \E data \in Deltas : Update(data)

DepthSpec == DepthInit /\ [][DepthNext]_vars

\* a frame is emitted in this step
FrameEmitted == Len(frames') = Len(frames) + 1
StrictlyOrdered(side, is_bids) == \A i \in 1..(Len(side) - 1) : Before(side[i], side[i + 1], is_bids)
ValidBook(b, a) ==
    /\ Len(b) = REQUIRED_LEVELS
    /\ Len(a) = REQUIRED_LEVELS
    /\ StrictlyOrdered(b, TRUE)
    /\ StrictlyOrdered(a, FALSE)
    /\ \A i \in 1..Len(b) : b[i].volume > 0
    /\ \A j \in 1..Len(a) : a[j].volume > 0

LastFrame(fs) == fs[Len(fs)]

\* C11: every feature frame that is emitted, for a snapshot with pairwise
\* distinct prices or for any delta after it, is built from a book with
\* exactly REQUIRED_LEVELS bids and asks, bids strictly descending and asks
\* strictly ascending in price (so no price twice on a side), and no level
\* with volume <= 0.
C11_FramesFromValidBooks == [][FrameEmitted => ValidBook(bids', asks')]_vars

\* a frame was emitted for a snapshot and another for a delta after it
C11_Witness == Len(frames) = 2 /\ last_action = "update" /\ ValidBook(bids, asks)

\* C12: emitted feature frames carry consecutive sequence ids modulo 2^16:
\* the frame after the one with id n carries (n + 1) mod 65536, and the frame
\* after id 65535 carries 0.
C12_ConsecutiveSequenceIds == [][(FrameEmitted /\ frames # <<>>) => LastFrame(frames') = (LastFrame(frames) + 1) % (2 ^ 16)]_vars

\* the frame with id 65535 was followed by the frame with id 0
C12_Witness == Len(frames) = 2 /\ frames[1] = 65535 /\ frames[2] = 0

\* C13 as stated: the feature frame emitted for a snapshot carries the
\* sequence id 0, however many frames were emitted before it.
C13_SnapshotRestartsSequence == [][(FrameEmitted /\ last_action' = "snapshot") => LastFrame(frames') = 0]_vars

\* C13 amended: a snapshot does not restart the sequence.  The frame emitted
\* for a snapshot carries the sequence id the engine had reached, the id
\* after the last emitted frame's modulo 2^16, and the snapshot advances the
\* sequence id by one like any other frame.
C13_SnapshotContinuesSequence == [][(FrameEmitted /\ last_action' = "snapshot") => (LastFrame(frames') = current_state_id_ /\ current_state_id_' = (current_state_id_ + 1) % (2 ^ 16) /\ (frames # <<>> => LastFrame(frames') = (LastFrame(frames) + 1) % (2 ^ 16)))]_vars

\* a second frame was emitted for a snapshot, and it carries id 1
C13_Witness == Len(frames) = 2 /\ last_action = "snapshot" /\ ValidBook(bids, asks) /\ frames = <<0, 1>>

\* C14: after a delta was rejected because a side did not hold exactly
\* REQUIRED_LEVELS levels, no feature frame is emitted for a later delta
\* until a snapshot has been processed successfully.
C14_NoFrameUntilResnapshot == [][(resnapshot_due /\ last_action' = "update") => ~ FrameEmitted]_vars

\* the message handled in this step left a side without exactly
\* REQUIRED_LEVELS levels
LeftShort == last_action' \in {"snapshot", "update"} /\ ~ (Len(bids') = REQUIRED_LEVELS /\ Len(asks') = REQUIRED_LEVELS)

\* C29: if, after a snapshot or a delta has been applied, either side does
\* not hold exactly REQUIRED_LEVELS levels, no feature frame is emitted for
\* the message and the sequence id is not advanced: the next frame that is
\* emitted carries the id the rejected message would have used.
C29_RejectedMessageKeepsSequence == [][(LeftShort => (frames' = frames /\ current_state_id_' = current_state_id_)) /\ (FrameEmitted => LastFrame(frames') = current_state_id_)]_vars

\* a delta was rejected, and a later delta was given the id that follows
\* the first frame's
C29_Witness == resnapshot_due /\ Len(frames) = 2 /\ last_action = "update" /\ frames[2] = (frames[1] + 1) % (2 ^ 16)

\* ====================================================== Decision Relay
\* A run receives MaxRelayFrames frames and MaxExecOrders exchange ids at
\* most.
MaxRelayFrames == 83
MaxExecOrders == 2

NETWORK_INPUT_SIZE == 80
HISTORY_BUFFER_SIZE == 1000
ACTION_BUFFER_SIZE == 1000
UINT16_MAX == 65535

\* the sequence id of the first frame the relay receives: 0, or the id from
\* which the NETWORK_INPUT_SIZE-th frame carries id 0
RelayStartIds == {0, UINT16_MAX - NETWORK_INPUT_SIZE + 2}

\* a decoded feature frame: its sequence id; arrival numbers the frames in
\* the order they were received and stands for the frame's content
OrderBookState(state_id, arrival) == [state_id |-> state_id, arrival |-> arrival]

\* the deques of PPOHandler: pop_front at the size limit, then push_back
PushLimited(buf, x, limit) == Append(IF Len(buf) >= limit THEN Tail(buf) ELSE buf, x)

\* the gate of handleMessage without the parity test
ShouldTrigger_NoParityGate(buf) == Len(buf) >= NETWORK_INPUT_SIZE

\* the gate of handleMessage before forwardPass
ShouldTrigger(buf) == Len(buf) >= NETWORK_INPUT_SIZE /\ buf[Len(buf)].state_id % 2 = 0

\* PPOHandler::preprocessState reading from the front of the history
preprocessState_FromFront(buf) == SubSeq(buf, 1, NETWORK_INPUT_SIZE)

\* PPOHandler::preprocessState: std::prev(end, NETWORK_INPUT_SIZE) .. end
preprocessState(buf) == SubSeq(buf, Len(buf) - NETWORK_INPUT_SIZE + 1, Len(buf))

\* PPOHandler::forwardPass and publishAction: the action is computed from the
\* tensor of preprocessState and carries state_buffer_.back().state_id
publishAction(buf, acts, pub) == [action_buffer_ |-> PushLimited(acts, buf[Len(buf)].state_id, ACTION_BUFFER_SIZE), published |-> [n |-> pub.n + 1, state_id |-> buf[Len(buf)].state_id, window |-> preprocessState(buf)]]

\* the state id list of handleExecutionUpdate: start_state_id is a uint16_t,
\* the loop reduces modulo std::numeric_limits<uint16_t>::max()
start_state_id(state_id) == IF state_id >= NETWORK_INPUT_SIZE THEN (state_id - NETWORK_INPUT_SIZE + 1) % (2 ^ 16) ELSE (UINT16_MAX - (NETWORK_INPUT_SIZE - state_id - 1)) % (2 ^ 16)
state_sequence(state_id) == [i \in 1..NETWORK_INPUT_SIZE |-> ((start_state_id(state_id) + (i - 1)) % UINT16_MAX) % (2 ^ 16)]

OrderInfo(okx_id, state_id, acts) == [okx_id |-> okx_id, state_id |-> state_id, state_ids |-> state_sequence(state_id), has_action |-> Cardinality({k \in 1..Len(acts) : acts[k] = state_id}) = 1]

RelayInit ==
    /\ OmsConstructed
    /\ DrainConstructed
    /\ SendConstructed
    /\ DeltaConstructed
    /\ ReplayConstructed
    /\ CodecConstructed
    /\ CancelConstructed
    /\ DepthConstructed
    /\ ThreadsIdle
    /\ BufferConstructed
    /\ state_buffer_ = <<>>
    /\ state_counter_ = 0
    /\ action_buffer_ = <<>>
    /\ skeleton_orders = <<>>
    /\ published = [n |-> 0, state_id |-> 0, window |-> <<>>]
    /\ restarted = FALSE

\* the sequence ids the next frame can carry: the first id of the run, the
\* id after the newest frame's, or 0 when the Depth Engine was started anew
NextFrameIds == IF state_buffer_ = <<>> THEN RelayStartIds ELSE {(state_buffer_[Len(state_buffer_)].state_id + 1) % (2 ^ 16)} \cup (IF restarted THEN {} ELSE {0})

\* PPOHandler::handleMessage: a feature frame from orderbook.updates
handleMessage(state_id) ==
    /\ state_counter_ < MaxRelayFrames
    /\ state_id \in NextFrameIds
    /\ LET buf == PushLimited(state_buffer_, OrderBookState(state_id, state_counter_ + 1), HISTORY_BUFFER_SIZE)
           out == publishAction(buf, action_buffer_, published)
       IN /\ state_buffer_' = buf
          /\ state_counter_' = state_counter_ + 1
          /\ IF ShouldTrigger(buf)
             THEN action_buffer_' = out.action_buffer_ /\ published' = out.published
             ELSE UNCHANGED <<action_buffer_, published>>
    /\ restarted' = (restarted \/ (state_buffer_ # <<>> /\ state_id # (state_buffer_[Len(state_buffer_)].state_id + 1) % (2 ^ 16)))
    /\ UNCHANGED skeleton_orders
    /\ UNCHANGED outside_relay

\* PPOHandler::handleExecutionUpdate, is_trade_closed = false, without the
\* search for an order with the report's okx_id
AddOrder_NoDuplicateCheck(orders, state_id, okx_id, acts) == Append(orders, OrderInfo(okx_id, state_id, acts))

\* PPOHandler::handleExecutionUpdate, is_trade_closed = false: the orders of
\* the trade skeleton after the report; a report for an okx_id the skeleton
\* holds returns early
AddOrder(orders, state_id, okx_id, acts) == IF \E k \in 1..Len(orders) : orders[k].okx_id = okx_id THEN orders ELSE Append(orders, OrderInfo(okx_id, state_id, acts))

\* PPOHandler::handleExecutionUpdate, is_trade_closed = false: a per-execution
\* report of the Lifecycle Engine for an order placed for one of the actions
ExecutionUpdate(state_id, okx_id) ==
    /\ \E k \in 1..Len(action_buffer_) : action_buffer_[k] = state_id
    /\ skeleton_orders' = AddOrder(skeleton_orders, state_id, okx_id, action_buffer_)
    /\ UNCHANGED <<state_buffer_, state_counter_, action_buffer_, published, restarted>>
    /\ UNCHANGED outside_relay

\* PPOHandler::handleExecutionUpdate, is_trade_closed = true: the skeleton is
\* handed to updateNetworks and replaced by an empty TradeInfo
TradeClosure ==
    /\ skeleton_orders # <<>>
    /\ skeleton_orders' = <<>>
    /\ UNCHANGED <<state_buffer_, state_counter_, action_buffer_, published, restarted>>
    /\ UNCHANGED outside_relay

RelayNext ==
    \/ \E state_id \in NextFrameIds : handleMessage(state_id)
    \/ \E state_id \in {published.state_id}, okx_id \in 1..MaxExecOrders : ExecutionUpdate(state_id, okx_id)
    \/ TradeClosure

RelaySpec == RelayInit /\ [][RelayNext]_vars

\* an action is published in this step
ActionPublished == published'.n = published.n + 1


\* C15: an action is published only when at least 80 frames are buffered and
\* the newest buffered frame's sequence id is even.
C15_ParityAndWindowGate == [][ActionPublished => (Len(state_buffer_') >= 80 /\ state_buffer_'[Len(state_buffer_')].state_id % 2 = 0)]_vars

\* an action was published, and a frame with an odd id arrived after it
C15_Witness == published.n >= 1 /\ Len(state_buffer_) >= 80 /\ state_buffer_[Len(state_buffer_)].state_id % 2 = 1

\* the action a was computed from the 80 frames that arrived last, in the
\* order of their arrival, counter frames having arrived so far
NewestWindow(a, buf, counter) ==
    /\ Len(a.window) = 80
    /\ \A i \in 1..80 : a.window[i] = buf[Len(buf) - 80 + i]
    /\ \A j \in 1..80 : a.window[j].arrival = counter - 80 + j
    /\ a.state_id = a.window[80].state_id

\* C16: every published action is computed from exactly the 80 most recently
\* buffered frames, in arrival order, and carries the newest frame's sequence
\* id as its state_id, also when the 80 frames straddle the step from 65535
\* to 0.
C16_WindowOfNewestFrames == [][ActionPublished => NewestWindow(published', state_buffer_', state_counter_')]_vars

\* an action was computed from more than 80 buffered frames that straddle
\* the wrap
C16_Witness == published.n >= 1 /\ Len(state_buffer_) > 80 /\ published.state_id = 2 /\ published.window[1].state_id > 65000 /\ published.window[1].arrival > 1

\* C17: the order record appended for a per-execution report with state_id s
\* carries the state-id list [(s - 79 + i) mod 65536 : i = 0..79], for every
\* s, s < 79 and s = 65535 included.
C17_StateIdListOfReport == \A k \in 1..Len(skeleton_orders) : skeleton_orders[k].state_ids = [i \in 1..80 |-> (skeleton_orders[k].state_id - 79 + (i - 1)) % 65536]

\* the per-execution reports that can be delivered next: for an order of the
\* action published last or of an action before it
ReportStateIds == {published.state_id} \cup {action_buffer_[k] : k \in 1..Len(action_buffer_)}

\* C36: the handling of per-execution reports is idempotent per exchange id:
\* a report whose okx_id has an order record in the current trade skeleton
\* leaves the skeleton unchanged, so the same report delivered twice leaves
\* the skeleton that one delivery leaves
C36_DuplicateReportIgnored ==
    \A okx_id \in 1..MaxExecOrders, state_id \in ReportStateIds :
        LET once == AddOrder(skeleton_orders, state_id, okx_id, action_buffer_)
        IN /\ (\E k \in 1..Len(skeleton_orders) : skeleton_orders[k].okx_id = okx_id) => once = skeleton_orders
           /\ \A again \in ReportStateIds : AddOrder(once, again, okx_id, action_buffer_) = once

\* the skeleton holds the orders of two reports, and a report for either of
\* them can be delivered again
C36_Witness == Len(skeleton_orders) = 2 /\ skeleton_orders[1].okx_id # skeleton_orders[2].okx_id /\ \E h \in 1..Len(action_buffer_) : action_buffer_[h] = published.state_id

\* ============================================ threads and the orders mutex
\* A handler is a sequence of sections; a section is a stretch of code that
\* reads or writes the shared objects objs, and lock tells whether a
\* std::lock_guard on orders_mutex_ is in scope over it.
Section(at, lock, objs) == [at |-> at, lock |-> lock, objs |-> objs]

\* OMSHandler::place_order copies okx_ws_->orders_ and passes current_trade_
\* to validateAndAdjustSize; send_order then calls store_order
place_order_job == <<Section("place_order", FALSE, {"orders_", "current_trade_"}), Section("store_order", TRUE, {"orders_"})>>

\* the order id callback: update_order_id, then known_orders_[id] = state_id
order_id_job == <<Section("update_order_id", TRUE, {"orders_"}), Section("order_id_callback", FALSE, {"known_orders_"})>>

\* a rejected order is erased from the deque
order_failed_job == <<Section("order_failed", TRUE, {"orders_"})>>

\* handle_order_update reads the accumulated fill of the order
order_update_job == <<Section("handle_order_update", TRUE, {"orders_"})>>

\* the order fill callback: recognition, update_order_fill, the order's
\* details, the trade accounting with its reports, the deque housekeeping
fill_callback_job == <<Section("recognition", TRUE, {"known_orders_", "orders_"}), Section("update_order_fill", TRUE, {"orders_"}), Section("order_details", TRUE, {"orders_"}), Section("trade_accounting", FALSE, {"current_trade_", "next_trade_"}), Section("housekeeping", TRUE, {"orders_", "known_orders_"})>>

\* the handlers of a thread: the broker consumer places orders, the
\* WebSocket service thread handles the exchange's messages, the buffer
\* processor runs the fill callback
Jobs(t) == IF t = "consumer" THEN {place_order_job} ELSE IF t = "websocket" THEN {order_id_job, order_failed_job, order_update_job} ELSE {fill_callback_job}

LockInit ==
    /\ OmsConstructed
    /\ DrainConstructed
    /\ SendConstructed
    /\ DeltaConstructed
    /\ ReplayConstructed
    /\ CodecConstructed
    /\ CancelConstructed
    /\ DepthConstructed
    /\ RelayConstructed
    /\ BufferConstructed
    /\ job = [t \in Threads |-> <<>>]
    /\ inside = [t \in Threads |-> FALSE]
    /\ orders_mutex_ = "free"

\* a message reaches the thread
Begin(t, j) ==
    /\ job[t] = <<>>
    /\ job' = [job EXCEPT ![t] = j]
    /\ UNCHANGED <<inside, orders_mutex_>>
    /\ UNCHANGED outside_lock

\* the thread reaches its next section; std::lock_guard blocks while another
\* thread holds the mutex
Enter(t) ==
    /\ job[t] # <<>>
    /\ ~ inside[t]
    /\ Head(job[t]).lock => orders_mutex_ = "free"
    /\ inside' = [inside EXCEPT ![t] = TRUE]
    /\ orders_mutex_' = IF Head(job[t]).lock THEN t ELSE orders_mutex_
    /\ UNCHANGED job
    /\ UNCHANGED outside_lock

\* the thread leaves the section; the lock_guard goes out of scope
Leave(t) ==
    /\ inside[t]
    /\ inside' = [inside EXCEPT ![t] = FALSE]
    /\ orders_mutex_' = IF Head(job[t]).lock THEN "free" ELSE orders_mutex_
    /\ job' = [job EXCEPT ![t] = Tail(job[t])]
    /\ UNCHANGED outside_lock

LockNext ==
    \/ \E t \in Threads : \E j \in Jobs(t) : Begin(t, j)
    \/ \E t \in Threads : Enter(t)
    \/ \E t \in Threads : Leave(t)

LockSpec == LockInit /\ [][LockNext]_vars

\* the shared objects thread t is reading or writing
Accessing(t) == IF inside[t] THEN Head(job[t]).objs ELSE {}

\* C18: every read or write of the active-orders deque, the known-orders
\* map, the current trade and the next trade is done holding the orders
\* mutex, and no two threads access any of them at the same time.
C18_AccessesUnderOrdersMutex == \A t \in Threads : (Accessing(t) # {} => orders_mutex_ = t) /\ (\A u \in Threads \ {t} : Accessing(t) \cap Accessing(u) = {})

MaxUpdates == 2
MaxTicks == 4

BUFFER_WINDOW_MS == 2000
\* how far the clock advances between two events, in milliseconds: the sleep
\* of buffer_processor_loop, or the buffer window
TickSizes == {100, BUFFER_WINDOW_MS}

\* BufferedOrderUpdate: the order, its fillTime; arrival numbers the updates
\* in the order the engine received them
BufferedOrderUpdate(okx_order_id, timestamp, arrival) == [okx_order_id |-> okx_order_id, timestamp |-> timestamp, arrival |-> arrival]

ByTimestamp(buf) == \A i \in 1..(Len(buf) - 1) : ~ (buf[i + 1].timestamp < buf[i].timestamp)

\* the orders std::partition can leave a range in: it is not stable
Arrangements(buf) == {[i \in 1..Len(buf) |-> buf[f[i]]] : f \in Permutations(1..Len(buf))}

\* the results std::sort can give for the comparator a.timestamp <
\* b.timestamp: the order of updates with equal timestamps is unspecified
SortByTimestamp(buf) == {s \in Arrangements(buf) : ByTimestamp(s)}

\* the predicate of std::partition in process_buffered_updates
Due(update, current_time) == (current_time - update.timestamp) > BUFFER_WINDOW_MS

\* the fill callback for the fill of a further order of the trade's
\* direction: one fill portion with timestamp = fill_time is pushed
RECURSIVE FillPortions(_)
FillPortions(updates) == IF updates = <<>> THEN <<>> ELSE <<[okx_order_id |-> Head(updates).okx_order_id, timestamp |-> Head(updates).timestamp, arrival |-> Head(updates).arrival]>> \o FillPortions(Tail(updates))

BufferInit ==
    /\ OmsConstructed
    /\ DrainConstructed
    /\ SendConstructed
    /\ DeltaConstructed
    /\ ReplayConstructed
    /\ CodecConstructed
    /\ CancelConstructed
    /\ DepthConstructed
    /\ RelayConstructed
    /\ ThreadsIdle
    /\ update_buffer_ = <<>>
    /\ now = 0
    /\ ticks = 0
    /\ in_flight = {}
    /\ arrived = 0
    /\ trade_portions = <<>>

\* the exchange fills a further buy order of the account completely and
\* sends the order update, fillTime being the time of the fill
ExchangeFill ==
    /\ arrived + Cardinality(in_flight) < MaxUpdates
    /\ in_flight' = in_flight \cup {[okx_order_id |-> arrived + Cardinality(in_flight) + 1, timestamp |-> now]}
    /\ UNCHANGED <<update_buffer_, now, ticks, arrived, trade_portions>>
    /\ UNCHANGED outside_buffer

\* time passes
Tick(d) ==
    /\ ticks < MaxTicks
    /\ now' = now + d
    /\ ticks' = ticks + 1
    /\ UNCHANGED <<update_buffer_, in_flight, arrived, trade_portions>>
    /\ UNCHANGED outside_buffer

\* OKXWebSocket::handle_order_update and add_to_buffer: the update reaches
\* the engine, is pushed to the buffer and the buffer is sorted
add_to_buffer(u) ==
    /\ u \in in_flight
    /\ in_flight' = in_flight \ {u}
    /\ arrived' = arrived + 1
    /\ update_buffer_' \in SortByTimestamp(Append(update_buffer_, BufferedOrderUpdate(u.okx_order_id, u.timestamp, arrived + 1)))
    /\ UNCHANGED <<now, ticks, trade_portions>>
    /\ UNCHANGED outside_buffer

\* OKXWebSocket::process_buffered_updates: the updates older than the window
\* leave the buffer, are sorted by timestamp and handed to the fill callback
process_buffered_updates ==
    /\ update_buffer_ # <<>>
    /\ \E split \in Arrangements(update_buffer_) :
          LET due == SelectSeq(split, LAMBDA u : Due(u, now))
              rest == SelectSeq(split, LAMBDA u : ~ Due(u, now))
          IN /\ update_buffer_' = rest
             /\ \E updates_to_process \in SortByTimestamp(due) : trade_portions' = trade_portions \o FillPortions(updates_to_process)
    /\ UNCHANGED <<now, ticks, in_flight, arrived>>
    /\ UNCHANGED outside_buffer

BufferNext ==
    \/ ExchangeFill
    \/ \E d \in TickSizes : Tick(d)
    \/ \E u \in in_flight : add_to_buffer(u)
    \/ process_buffered_updates

BufferSpec == BufferInit /\ [][BufferNext]_vars

\* C20: within one trade, fill portions are appended in non-decreasing
\* fill_time order whatever the order in which the fill updates arrive: no
\* portion is stored after a portion with a larger fill_time, and portions
\* with equal fill_time are stored in the order their updates arrived.
C20_PortionsInFillTimeOrder == \A i \in 1..Len(trade_portions) : \A j \in 1..Len(trade_portions) : i < j => (trade_portions[i].timestamp <= trade_portions[j].timestamp /\ (trade_portions[i].timestamp = trade_portions[j].timestamp => trade_portions[i].arrival < trade_portions[j].arrival))

\* ===================================================== cancellation queue
\* OKXWebSocket keeps the orders it wants cancelled in old_orders_, guarded
\* by old_orders_mutex_, a std::mutex.  handle_message is the only receiver
\* of the exchange's messages; handle_cancel_response and process_old_orders
\* are modelled statement by statement where they take the mutex.  Locking a
\* std::mutex the calling thread owns is undefined: the thread waits for
\* itself for ever, or lock() throws std::system_error, or the lock is
\* taken again.

\* ----------------------------------------------------------------- bounds
MaxCancelled == 3

CancelIds == 1..MaxCancelled

\* struct CancellationInfo
CancellationInfo(okx_order_id, cancellation_sent, cancellation_confirmed) ==
    [okx_order_id |-> okx_order_id, cancellation_sent |-> cancellation_sent,
     cancellation_confirmed |-> cancellation_confirmed]

InCancellationQueue(q, okx_order_id) ==
    \E i \in 1..Len(q) : q[i].okx_order_id = okx_order_id

\* handle_cancel_response, lines 859-864: the first entry with this exchange
\* id is marked confirmed
MarkConfirmed(q, okx_order_id) ==
    LET i == CHOOSE j \in 1..Len(q) :
                /\ q[j].okx_order_id = okx_order_id
                /\ \A h \in 1..(j - 1) : q[h].okx_order_id # okx_order_id
    IN IF InCancellationQueue(q, okx_order_id)
       THEN [q EXCEPT ![i].cancellation_confirmed = TRUE]
       ELSE q

\* process_old_orders, erase(remove_if(...)): the confirmed entries go
RemoveConfirmed(q) == SelectSeq(q, LAMBDA info : ~ info.cancellation_confirmed)

\* process_old_orders, the loop: index of the first entry whose cancellation
\* has not been sent, 0 if there is none
NextUnsent(q) ==
    IF \E i \in 1..Len(q) : ~ q[i].cancellation_sent
    THEN CHOOSE i \in 1..Len(q) :
            /\ ~ q[i].cancellation_sent
            /\ \A h \in 1..(i - 1) : q[h].cancellation_sent
    ELSE 0

CancelInit ==
    /\ OmsConstructed
    /\ DrainConstructed
    /\ SendConstructed
    /\ DeltaConstructed
    /\ ReplayConstructed
    /\ CodecConstructed
    /\ DepthConstructed
    /\ RelayConstructed
    /\ ThreadsIdle
    /\ BufferConstructed
    /\ CancelConstructed

\* OKXWebSocket::move_to_old_orders, called by store_order for the order it
\* drops from the front of a full deque
move_to_old_orders(okx_order_id) ==
    /\ old_orders_mutex_ = "free"
    /\ ~ InCancellationQueue(old_orders_, okx_order_id)
    /\ old_orders_' = Append(old_orders_,
                             CancellationInfo(okx_order_id, FALSE, FALSE))
    /\ UNCHANGED <<old_orders_mutex_, cancel_pc, confirmations, cancel_requests>>
    /\ UNCHANGED outside_cancel

\* OKXWebSocket::handle_message receives the exchange's positive answer to a
\* cancel request, {"op": "cancel-order", "code": "0", "data": [{"ordId",
\* "sCode": "0"}]}: the message has no "event", its "op" is not "order" and
\* it has no "arg", so no branch is taken and the function returns
handle_message(okx_order_id) ==
    /\ cancel_pc.at = "idle"
    /\ InCancellationQueue(old_orders_, okx_order_id)
    /\ confirmations' = confirmations \cup {okx_order_id}
    /\ UNCHANGED <<old_orders_, old_orders_mutex_, cancel_pc, cancel_requests>>
    /\ UNCHANGED outside_cancel

\* OKXWebSocket::handle_cancel_response up to the call of process_old_orders:
\* the lock_guard takes old_orders_mutex_ and the entry is marked
handle_cancel_response(okx_order_id) ==
    /\ cancel_pc.at = "idle"
    /\ old_orders_mutex_ = "free"
    /\ InCancellationQueue(old_orders_, okx_order_id)
    /\ old_orders_mutex_' = "websocket"
    /\ old_orders_' = MarkConfirmed(old_orders_, okx_order_id)
    /\ cancel_pc' = [at |-> "process_old_orders", okx_order_id |-> okx_order_id]
    /\ UNCHANGED <<confirmations, cancel_requests>>
    /\ UNCHANGED outside_cancel

\* process_old_orders, its lock_guard on the mutex the caller holds: the
\* thread waits for itself
LockAgain_Blocks ==
    /\ cancel_pc.at = "process_old_orders"
    /\ old_orders_mutex_ = "websocket"
    /\ cancel_pc' = [cancel_pc EXCEPT !.at = "blocked"]
    /\ UNCHANGED <<old_orders_, old_orders_mutex_, confirmations, cancel_requests>>
    /\ UNCHANGED outside_cancel

\* ... or lock() throws std::system_error: handle_cancel_response's handler
\* catches it, the caller's lock_guard releases the mutex
LockAgain_Throws ==
    /\ cancel_pc.at = "process_old_orders"
    /\ old_orders_mutex_ = "websocket"
    /\ old_orders_mutex_' = "free"
    /\ confirmations' = confirmations \cup {cancel_pc.okx_order_id}
    /\ cancel_pc' = [at |-> "idle", okx_order_id |-> 0]
    /\ UNCHANGED <<old_orders_, cancel_requests>>
    /\ UNCHANGED outside_cancel

\* ... or the lock is taken again and process_old_orders runs: the confirmed
\* entries are erased and the next unsent cancellation is sent, which
\* succeeds when the connection is up
LockAgain_Proceeds(connected_) ==
    /\ cancel_pc.at = "process_old_orders"
    /\ old_orders_mutex_ = "websocket"
    /\ LET q == RemoveConfirmed(old_orders_)
           i == NextUnsent(q)
       IN IF i # 0 /\ connected_
          THEN /\ old_orders_' = [q EXCEPT ![i].cancellation_sent = TRUE]
               /\ cancel_requests' = cancel_requests \cup {q[i].okx_order_id}
          ELSE /\ old_orders_' = q
               /\ UNCHANGED cancel_requests
    /\ old_orders_mutex_' = "free"
    /\ confirmations' = confirmations \cup {cancel_pc.okx_order_id}
    /\ cancel_pc' = [at |-> "idle", okx_order_id |-> 0]
    /\ UNCHANGED outside_cancel

CancelNext ==
    \/ \E okx_order_id \in CancelIds : move_to_old_orders(okx_order_id)
    \/ \E okx_order_id \in CancelIds : handle_message(okx_order_id)
    \/ \E okx_order_id \in CancelIds : handle_cancel_response(okx_order_id)
    \/ LockAgain_Blocks
    \/ LockAgain_Throws
    \/ \E connected_ \in BOOLEAN : LockAgain_Proceeds(connected_)

CancelSpec == CancelInit /\ [][CancelNext]_vars

\* the engine has finished with a positive cancel confirmation in this step
ConfirmationHandled(okx_order_id) ==
    /\ okx_order_id \notin confirmations
    /\ okx_order_id \in confirmations'

\* C21: the handling of a positive cancel confirmation for an order in the
\* cancellation queue never waits on the mutex it holds, and when it is done
\* the order's entry is no longer in the cancellation queue
C21_ConfirmationRemovesEntry ==
    /\ [](cancel_pc.at # "blocked")
    /\ [][\A e \in CancelIds :
            ConfirmationHandled(e) => ~ InCancellationQueue(old_orders_', e)]_vars

\* ============================================================ binary codec
\* binary_utils packs doubles into unsigned words.  The model keeps the
\* layout and scales the widths: a double is an integer n that stands for
\* n / 2^GRID_BITS and is representable when it has at most MANT_BITS
\* significant bits (53 in the source); a change value has FRAC_BITS fraction
\* bits (63 in the source) under one sign bit; ZERO_THRESHOLD is
\* 2^-ZERO_BITS (1e-15 in the source, between 2^-50 and 2^-49).  As in the
\* source the fraction is wider than the mantissa and the zero threshold is
\* coarser than the fraction's resolution.  A mid price is a whole number of
\* thousandths of a dollar.

\* ----------------------------------------------------------------- bounds
FRAC_BITS == 10
MANT_BITS == 6
ZERO_BITS == 7

\* ------------------------------------------------------- program constants
ACTION_TYPE_MASK == 7
MAX_MIDPRICE == 1000000
CENTS_MULTIPLIER == 100
ORDERBOOK_WHOLE_BITS == 10

GRID_BITS == FRAC_BITS + 2
UnitValue == 2 ^ GRID_BITS
MILLS == 10 * CENTS_MULTIPLIER
MillsPerCent == MILLS \div CENTS_MULTIPLIER

\* number of bits of a natural number
RECURSIVE BitLength(_)
BitLength(x) == IF x = 0 THEN 0 ELSE 1 + BitLength(x \div 2)

\* static_cast<double> of an unsigned integer: the nearest value with at most
\* MANT_BITS significant bits, ties to even
ToDouble(x) ==
    LET e == BitLength(x) - MANT_BITS
        q == x \div (2 ^ e)
        r == x % (2 ^ e)
        half == 2 ^ (e - 1)
    IN IF e <= 0 THEN x
       ELSE IF r > half \/ (r = half /\ q % 2 = 1) THEN (q + 1) * (2 ^ e)
       ELSE q * (2 ^ e)

\* a double of the grid: at most MANT_BITS significant bits
IsDouble(n) == ToDouble(Abs(n)) = Abs(n)

PRICE_SIGN_MASK == 2 ^ FRAC_BITS
PRICE_FRAC_MASK == (2 ^ FRAC_BITS) - 1
PRICE_FRAC_SCALE == ToDouble((2 ^ FRAC_BITS) - 1)
ORDERBOOK_FRAC_MASK == (2 ^ MANT_BITS) - 1
ORDERBOOK_FRAC_SCALE == ToDouble((2 ^ MANT_BITS) - 1)
ORDERBOOK_SIGN_MASK == 2 ^ (ORDERBOOK_WHOLE_BITS + MANT_BITS)

\* binary_utils::isZero: |value| < ZERO_THRESHOLD
isZero(value) == Abs(value) * (2 ^ ZERO_BITS) < UnitValue

\* binary_utils::encodeChangeValue: absValue * PRICE_FRAC_SCALE is a product
\* by a power of two and exact, the cast to uint64_t truncates, the mask
\* keeps the low FRAC_BITS bits
encodeChangeValue(value) ==
    IF isZero(value) THEN 0
    ELSE LET sign == IF value < 0 THEN 1 ELSE 0
             fraction == (Abs(value) * PRICE_FRAC_SCALE) \div UnitValue
         IN sign * PRICE_SIGN_MASK + (fraction % (2 ^ FRAC_BITS))

\* binary_utils::decodeChangeValue; -0.0 is 0
decodeChangeValue(encoded) ==
    IF encoded = 0 THEN 0
    ELSE LET is_negative == (encoded \div PRICE_SIGN_MASK) % 2 = 1
             fraction == encoded % (2 ^ FRAC_BITS)
             value == (ToDouble(fraction) * UnitValue) \div PRICE_FRAC_SCALE
         IN IF is_negative THEN - value ELSE value

\* binary_utils::encodeOrderBookValue: sign, whole part capped at 1023,
\* fraction; the product of the fraction is taken exactly
encodeOrderBookValue(value) ==
    IF isZero(value) THEN 0
    ELSE LET sign == IF value < 0 THEN 1 ELSE 0
             wholePart == Abs(value) \div UnitValue
             fracPart == Abs(value) % UnitValue
             wholeInt == Min(wholePart, (2 ^ ORDERBOOK_WHOLE_BITS) - 1)
             fractionInt == (fracPart * ORDERBOOK_FRAC_SCALE) \div UnitValue
         IN sign * ORDERBOOK_SIGN_MASK + wholeInt * (2 ^ MANT_BITS)
            + (fractionInt % (2 ^ MANT_BITS))

\* binary_utils::decodeOrderBookValue
decodeOrderBookValue(encoded) ==
    IF encoded = 0 THEN 0
    ELSE LET is_negative == (encoded \div ORDERBOOK_SIGN_MASK) % 2 = 1
             whole == (encoded \div (2 ^ MANT_BITS)) % (2 ^ ORDERBOOK_WHOLE_BITS)
             fraction == encoded % (2 ^ MANT_BITS)
             value == whole * UnitValue
                      + (fraction * UnitValue) \div ORDERBOOK_FRAC_SCALE
         IN IF is_negative THEN - value ELSE value

\* std::round(mid_price * CENTS_MULTIPLIER): the double nearest to a decimal
\* that ends in 5 thousandths lies below or above it, so the half rounds
\* either way
RoundCents(mid_price, tie_up) ==
    LET q == mid_price \div MillsPerCent
        r == mid_price % MillsPerCent
    IN IF 2 * r > MillsPerCent \/ (2 * r = MillsPerCent /\ tie_up)
       THEN q + 1 ELSE q

\* the 23-byte frame
ActionFrame(thrown, action_type, price, volume, mid_price_cents, state_id) ==
    [thrown |-> thrown, action_type |-> action_type, price |-> price,
     volume |-> volume, mid_price_cents |-> mid_price_cents,
     state_id |-> state_id]

\* an encoder that writes the frame whatever the mid price
encodeOmsActionV2_NoRangeCheck(action_type, price, volume, mid_price, state_id, tie_up) ==
    ActionFrame(FALSE, action_type % (ACTION_TYPE_MASK + 1),
                encodeChangeValue(price), encodeOrderBookValue(volume),
                RoundCents(Abs(mid_price), tie_up),
                state_id % (2 ^ 16))

\* binary_utils::encodeOmsActionV2; thrown is the std::runtime_error
encodeOmsActionV2(action_type, price, volume, mid_price, state_id, tie_up) ==
    IF mid_price < 0 \/ mid_price > MAX_MIDPRICE * MILLS
    THEN ActionFrame(TRUE, 0, 0, 0, 0, 0)
    ELSE ActionFrame(FALSE, action_type % (ACTION_TYPE_MASK + 1),
                     encodeChangeValue(price), encodeOrderBookValue(volume),
                     RoundCents(mid_price, tie_up),
                     state_id % (2 ^ 16))

\* binary_utils::decodeOmsActionV2
decodeOmsActionV2(frame) ==
    [action_type |-> frame.action_type % (ACTION_TYPE_MASK + 1),
     price |-> decodeChangeValue(frame.price),
     volume |-> decodeOrderBookValue(frame.volume),
     mid_price |-> frame.mid_price_cents * MillsPerCent,
     state_id |-> frame.state_id % (2 ^ 16)]

\* the action tuples handed to the encoder: action kinds on both sides of
\* the 3-bit mask, price offsets and volumes of the grid, mid prices around
\* zero, around a cent's half and around MAX_MIDPRICE, state ids at the ends
\* of the 16-bit range
ActionTypes == {0, ACTION_TYPE_MASK, ACTION_TYPE_MASK + 2}
ActionPrices == {- (UnitValue \div 2), 0, UnitValue \div 4}
ActionVolumes == {0, UnitValue + UnitValue \div 2}
MidPrices == {-1, 0, 4, 5, 123456, MAX_MIDPRICE * MILLS - 5, MAX_MIDPRICE * MILLS, MAX_MIDPRICE * MILLS + 1}
ActionStateIds == {0, 1, UINT16_MAX}

ActionInputs ==
    [action_type : ActionTypes, price : ActionPrices, volume : ActionVolumes,
     mid_price : MidPrices, state_id : ActionStateIds]

CodecInit ==
    /\ OmsConstructed
    /\ DrainConstructed
    /\ SendConstructed
    /\ DeltaConstructed
    /\ ReplayConstructed
    /\ DepthConstructed
    /\ RelayConstructed
    /\ ThreadsIdle
    /\ BufferConstructed
    /\ CancelConstructed
    /\ action_in \in ActionInputs
    /\ action_frame = ActionFrame(FALSE, 0, 0, 0, 0, 0)
    /\ action_out = [action_type |-> 0, price |-> 0, volume |-> 0, mid_price |-> 0, state_id |-> 0]
    /\ codec_at = "input"
    /\ change_value = 0
    /\ change_word = 0
    /\ change_decoded = 0
    /\ change_at = "idle"

\* PPOHandler::publishAction encodes the action; when the encoder throws, the
\* handler of publishAction logs and nothing is published
Encode(tie_up) ==
    /\ codec_at = "input"
    /\ action_frame' = encodeOmsActionV2(action_in.action_type, action_in.price,
                                         action_in.volume, action_in.mid_price,
                                         action_in.state_id, tie_up)
    /\ codec_at' = IF action_frame'.thrown THEN "failed" ELSE "encoded"
    /\ UNCHANGED <<action_in, action_out, change_value, change_word, change_decoded, change_at>>
    /\ UNCHANGED outside_codec

\* OMSHandler::handleMessage decodes the frame
Decode ==
    /\ codec_at = "encoded"
    /\ action_out' = decodeOmsActionV2(action_frame)
    /\ codec_at' = "decoded"
    /\ UNCHANGED <<action_in, action_frame, change_value, change_word, change_decoded, change_at>>
    /\ UNCHANGED outside_codec

CodecNext ==
    \/ \E tie_up \in BOOLEAN : Encode(tie_up)
    \/ Decode

CodecSpec == CodecInit /\ [][CodecNext]_vars

MidPriceInRange(m) == m >= 0 /\ m <= MAX_MIDPRICE * MILLS

\* C22: an action tuple with an action kind below 8 and a mid price in
\* [0, 1000000.00] is read back with the same action kind and state id and a
\* mid price within 0.01; a mid price above 1000000.00 or below 0 makes the
\* encoder fail, and no frame is written
C22_ActionFrameRoundTrip ==
    /\ (codec_at = "decoded" /\ action_in.action_type <= ACTION_TYPE_MASK)
          => /\ MidPriceInRange(action_in.mid_price)
             /\ action_out.action_type = action_in.action_type
             /\ action_out.state_id = action_in.state_id
             /\ Abs(action_out.mid_price - action_in.mid_price) <= MillsPerCent
    /\ (codec_at # "input" /\ ~ MidPriceInRange(action_in.mid_price))
          => (codec_at = "failed" /\ action_frame.thrown)

\* the largest action kind, state id and a mid price 0.005 below the maximum
\* have made the round trip
C22_Witness ==
    /\ codec_at = "decoded"
    /\ action_in.action_type = ACTION_TYPE_MASK
    /\ action_in.state_id = UINT16_MAX
    /\ action_in.mid_price = MAX_MIDPRICE * MILLS - 5
    /\ action_out.mid_price = MAX_MIDPRICE * MILLS

\* ------------------------------------------------------ change-value codec
\* the doubles of the grid in [-1, 1]
ChangeValues == {n \in (- UnitValue)..UnitValue : IsDouble(n)}

ChangeInit ==
    /\ OmsConstructed
    /\ DrainConstructed
    /\ SendConstructed
    /\ DeltaConstructed
    /\ ReplayConstructed
    /\ DepthConstructed
    /\ RelayConstructed
    /\ ThreadsIdle
    /\ BufferConstructed
    /\ CancelConstructed
    /\ action_in = [action_type |-> 0, price |-> 0, volume |-> 0, mid_price |-> 0, state_id |-> 0]
    /\ action_frame = ActionFrame(FALSE, 0, 0, 0, 0, 0)
    /\ action_out = [action_type |-> 0, price |-> 0, volume |-> 0, mid_price |-> 0, state_id |-> 0]
    /\ codec_at = "idle"
    /\ change_value \in ChangeValues
    /\ change_word = 0
    /\ change_decoded = 0
    /\ change_at = "input"

\* OrderBookHandler::publishOrderBookUpdate and encodeOmsActionV2 write a
\* change value
EncodeChange ==
    /\ change_at = "input"
    /\ change_word' = encodeChangeValue(change_value)
    /\ change_at' = "encoded"
    /\ UNCHANGED <<action_in, action_frame, action_out, codec_at, change_value, change_decoded>>
    /\ UNCHANGED outside_codec

\* PPOHandler::handleMessage and decodeOmsActionV2 read it
DecodeChange ==
    /\ change_at = "encoded"
    /\ change_decoded' = decodeChangeValue(change_word)
    /\ change_at' = "decoded"
    /\ UNCHANGED <<action_in, action_frame, action_out, codec_at, change_value, change_word>>
    /\ UNCHANGED outside_codec

ChangeNext == EncodeChange \/ DecodeChange

ChangeSpec == ChangeInit /\ [][ChangeNext]_vars

\* the words a and b differ in no bit but the sign bit
SameButSign(a, b) == a % PRICE_SIGN_MASK = b % PRICE_SIGN_MASK

\* C23: every v in [-1, 1], the endpoints included, is read back to within
\* two units of the fraction's resolution (2^-62 in the source); 0 encodes
\* as 0; a negative v of magnitude at least ZERO_THRESHOLD encodes with the
\* sign bit set and is read back strictly negative; -v and v encode to words
\* that differ only in the sign bit
C23_ChangeValueRoundTrip ==
    /\ change_at = "decoded" =>
          Abs(change_decoded - change_value) * (2 ^ (FRAC_BITS - 1)) <= UnitValue
    /\ (change_at # "input" /\ change_value = 0) => change_word = 0
    /\ (change_at = "decoded" /\ change_value < 0 /\ ~ isZero(change_value))
          => /\ change_word \div PRICE_SIGN_MASK = 1
             /\ change_decoded < 0
    /\ SameButSign(encodeChangeValue(change_value),
                   encodeChangeValue(- change_value))

\* ================================================= fill decomposition (C24)
\* the part of a fill against the trade's side that closes the trade, as the
\* callback computes it from the trade's record of the order
ClosingPart(t, okx, filled_size) ==
    LET i == Find(t.orders, okx)
        fill_delta == filled_size - (IF i = 0 THEN 0 ELSE t.orders[i].filled_size)
    IN Min(fill_delta, Abs(t.size))

\* a fill of one of the engine's orders against the side of the active trade
OppositeFillStep ==
    /\ FillStep
    /\ ~ exch[FilledId].foreign
    /\ current_trade_.has_active_trade
    /\ Opposite(current_trade_, exch[FilledId].side)

\* C24: for every fill against the side of the active trade, the closing and
\* the opening part add up to the fill delta, the closing part is the smaller
\* of the fill delta and the magnitude of the prior net size, the opening part
\* is not negative, and the magnitude of the trade's net size after the fill
\* is the prior magnitude less the closing part
C24_ClosingOpeningSplit ==
    [][ OppositeFillStep =>
          LET delta == exch'[FilledId].cum - exch[FilledId].cum
              prior == Abs(current_trade_.size)
              closing == ClosingPart(current_trade_, FilledId, exch'[FilledId].cum)
              opening == OpeningPart(current_trade_, FilledId, exch'[FilledId].cum)
          IN /\ closing + opening = delta
             /\ closing = Min(delta, prior)
             /\ closing <= prior
             /\ opening >= 0
             /\ IF TradeEnds THEN prior - closing = 0
                ELSE Abs(current_trade_'.size) = prior - closing ]_vars

\* ===================================================== net position (C25)
\* the net position the exchange implies for the engine's own orders: every
\* fill delta processed so far, buys positive and sells negative
RECURSIVE KnownPosition(_)
KnownPosition(book) ==
    IF book = <<>> THEN 0
    ELSE (IF Head(book).foreign THEN 0
          ELSE IF Head(book).side = "buy" THEN Head(book).cum
          ELSE - Head(book).cum)
         + KnownPosition(Tail(book))

\* the net position of the engine: the net size of the current trade with
\* the sign of the trade's direction, 0 when no trade is active
EngineNetPosition ==
    IF ~ current_trade_.has_active_trade THEN 0
    ELSE IF current_trade_.is_long THEN Abs(current_trade_.size)
    ELSE - Abs(current_trade_.size)

\* C25: at every step the engine's net position is the signed sum of the
\* fill deltas of its orders that it has processed, also when the fills of
\* an order are split across two trades
C25_NetPositionIsSumOfFillDeltas == EngineNetPosition = KnownPosition(exch)

\* ================================================ repeated fill events (C26)
\* ----------------------------------------------------------------- bounds
MaxRepeats == 1

\* The exchange reports an order again with the accumulated size it has
\* reported before (an update that carries no new fill).
\* OKXWebSocket::handle_order_update compares accFillSz with the
\* cumulative_filled_size of the order's entry in the deque, 0 when the deque
\* has no entry, and buffers the update when the difference exceeds 1e-8;
\* process_buffered_updates hands every buffered update to the fill callback.
\* in_window says that the update arrived while the earlier update with the
\* same accumulated size was still in the buffer, so that the deque entry
\* still carried the cumulative size before that update and the comparison
\* let both pass.
ReReport(okx_order_id, in_window) ==
    /\ repeats < MaxRepeats
    /\ okx_order_id \in 1..Len(exch)
    /\ AllAcked(exch)
    /\ exch[okx_order_id].cum > 0
    /\ LET acc_filled_size == exch[okx_order_id].cum
           k == Find(orders_, okx_order_id)
           prev_acc_filled_size == IF k = 0 THEN 0
                                   ELSE orders_[k].cumulative_filled_size
           fill_delta == acc_filled_size - prev_acc_filled_size
           state == IF acc_filled_size = exch[okx_order_id].volume
                    THEN "filled" ELSE "partially_filled"
       IN \E st \in {IF in_window \/ fill_delta > 0
                     THEN order_fill_callback(State, okx_order_id,
                                              acc_filled_size,
                                              exch[okx_order_id].px,
                                              exch[okx_order_id].side,
                                              state, FillClock(exch))
                     ELSE State} :
             /\ orders_' = st.orders_
             /\ known_orders_' = st.known_orders_
             /\ current_trade_' = st.current_trade_
             /\ next_trade_' = st.next_trade_
             /\ has_next_trade_' = st.has_next_trade_
             /\ published_state_ids_' = st.published_state_ids_
             /\ reports' = st.reports
    /\ repeats' = repeats + 1
    /\ UNCHANGED <<maxdd_, exch>>
    /\ UNCHANGED <<depth_vars, relay_vars, lock_vars, buffer_vars, cancel_vars, codec_vars, delta_vars, send_vars, drain_vars>>

ReplayNext ==
    \/ \E state_id \in StateIds, side \in Sides, size \in Volumes,
          price \in Prices : PlaceOrder(state_id, side, size, price)
    \/ \E side \in {"buy"}, price \in {300} : ForeignOrder(side, price)
    \/ \E okx_order_id \in 1..MaxOrders : OrderAck(okx_order_id)
    \/ \E uplRatio \in UplRatios : PositionUpdate(uplRatio)
    \/ \E okx_order_id \in 1..MaxOrders, filled_size \in Volumes :
          Fill(okx_order_id, filled_size)
    \/ \E okx_order_id \in 1..MaxOrders, in_window \in BOOLEAN :
          ReReport(okx_order_id, in_window)

ReplaySpec == Init /\ [][ReplayNext]_vars

\* a step in which the exchange has repeated an order update
NoNewFillStep == repeats' = repeats + 1

\* C26: a fill event whose accumulated size does not exceed what has been
\* processed for its exchange id changes neither the current trade nor the
\* next trade and publishes no report, also when the event was buffered
\* together with the event it repeats and when the order has left the
\* active deque
C26_RepeatedFillIgnored ==
    [][NoNewFillStep => /\ current_trade_' = current_trade_
                        /\ next_trade_' = next_trade_
                        /\ has_next_trade_' = has_next_trade_
                        /\ reports' = reports]_vars

\* ======================================================= side tallies (C27)
\* the sizes of the fill portions of a sequence that carry the trade's id
RECURSIVE PortionsSize(_, _)
PortionsSize(portions, tradeId) ==
    IF portions = <<>> THEN 0
    ELSE (IF Head(portions).tradeId = tradeId THEN Head(portions).size ELSE 0)
         + PortionsSize(Tail(portions), tradeId)

\* the size of all fills of one side attributed to the trade: the fill
\* portions with the trade's id of the trade's orders of that side
RECURSIVE SideFills(_, _, _)
SideFills(ords, tradeId, side) ==
    IF ords = <<>> THEN 0
    ELSE (IF Head(ords).side = side
          THEN PortionsSize(Head(ords).fill_portions, tradeId) ELSE 0)
         + SideFills(Tail(ords), tradeId, side)

\* C27: while a trade is active its buy tally is the sum of the sizes of the
\* buy fills attributed to the trade and its sell tally the sum of the sizes
\* of its sell fills, the opening fill and successive partial fills of one
\* order included
C27_SideTalliesAreFillSums ==
    current_trade_.has_active_trade =>
       /\ current_trade_.buy_side_total_size
             = SideFills(current_trade_.orders, current_trade_.tradeId, "buy")
       /\ current_trade_.sell_side_total_size
             = SideFills(current_trade_.orders, current_trade_.tradeId, "sell")

\* ---------------------------------------------------------------------
\* A delta applied to a valid book (orderbook_handler.cpp)
\* ---------------------------------------------------------------------

\* a level with its order count, [price, size, _, orders]
DeltaLevel(price, volume, orders) == [price |-> price, volume |-> volume, orders |-> orders]

\* the prices of a set, ascending
RECURSIVE PriceListing(_)
PriceListing(S) == IF S = {} THEN <<>> ELSE LET p == CHOOSE p \in S : \A q \in S : p <= q IN <<p>> \o PriceListing(S \ {p})

\* the sides of a valid book: REQUIRED_LEVELS prices, each of size 1 with one
\* order, in the order the sort of handleSnapshot leaves them
BookSide(S, is_bids) == LET ps == PriceListing(S) IN SortSide([i \in 1..Len(ps) |-> DeltaLevel(ps[i], 1, 1)], is_bids)
BookSides(is_bids) == {BookSide(S, is_bids) : S \in {T \in SUBSET DepthPrices : Cardinality(T) = REQUIRED_LEVELS}}

\* the levels of a delta: size "0", or size 2 with three orders
DeltaMessageLevels == {DeltaLevel(p, 0, 0) : p \in DepthPrices} \cup {DeltaLevel(p, 2, 3) : p \in DepthPrices}
OneDeltaLevel == {<<l>> : l \in DeltaMessageLevels}
TwoDeltaLevels == {<<l, m>> : l \in DeltaMessageLevels, m \in DeltaMessageLevels}
DeltaInputs == {[bids |-> b, asks |-> <<>>] : b \in {<<>>} \cup OneDeltaLevel \cup TwoDeltaLevels} \cup {[bids |-> <<>>, asks |-> a] : a \in OneDeltaLevel \cup TwoDeltaLevels} \cup {[bids |-> b, asks |-> a] : b \in OneDeltaLevel, a \in OneDeltaLevel}

\* the book after a snapshot with REQUIRED_LEVELS levels on each side was
\* handled and its frame emitted, and a delta about to arrive
DeltaInit ==
    /\ OmsConstructed
    /\ DrainConstructed
    /\ SendConstructed
    /\ ReplayConstructed
    /\ CodecConstructed
    /\ CancelConstructed
    /\ RelayConstructed
    /\ ThreadsIdle
    /\ BufferConstructed
    /\ \E b \in BookSides(TRUE), a \in BookSides(FALSE), data \in DeltaInputs :
          /\ bids = b
          /\ asks = a
          /\ delta_in = [bids |-> b, asks |-> a, data |-> data]
    /\ frames = <<0>>
    /\ current_state_id_ = incrementStateId(0)
    /\ last_action = "snapshot"
    /\ resnapshot_due = FALSE

\* handleMessage, action "update", for the delta that is due
ApplyDelta ==
    /\ last_action = "snapshot"
    /\ Update(delta_in.data)

DeltaNext == ApplyDelta

DeltaSpec == DeltaInit /\ [][DeltaNext]_vars

\* the price -> (volume, order_count) map of a side
SideMap(side) == [p \in {side[i].price : i \in 1..Len(side)} |-> LET i == CHOOSE j \in 1..Len(side) : side[j].price = p IN [volume |-> side[i].volume, orders |-> side[i].orders]]
\* one level of a delta applied to the map: size 0 removes the price, any
\* other size overwrites or inserts it
MapUpdate(m, level) == IF level.volume = 0 THEN [p \in DOMAIN m \ {level.price} |-> m[p]] ELSE [p \in DOMAIN m \cup {level.price} |-> IF p = level.price THEN [volume |-> level.volume, orders |-> level.orders] ELSE m[p]]
RECURSIVE MapUpdates(_, _)
MapUpdates(m, levels) == IF levels = <<>> THEN m ELSE MapUpdates(MapUpdate(m, Head(levels)), Tail(levels))
\* the map listed by price, bids descending and asks ascending
RECURSIVE MapListing(_, _)
MapListing(m, is_bids) == IF DOMAIN m = {} THEN <<>> ELSE LET first == CHOOSE p \in DOMAIN m : \A q \in DOMAIN m : IF is_bids THEN q <= p ELSE p <= q IN <<DeltaLevel(first, m[first].volume, m[first].orders)>> \o MapListing([p \in DOMAIN m \ {first} |-> m[p]], is_bids)
ReferenceSide(side, levels, is_bids) == MapListing(MapUpdates(SideMap(side), levels), is_bids)

\* the levels of a delta side that name a price of the book side with size 0
RemovesKnown(side, levels) == \E i \in 1..Len(levels), j \in 1..Len(side) : levels[i].volume = 0 /\ levels[i].price = side[j].price
\* a delta side whose only level has size 0 and a price the book side lacks
OnlyRemovesUnknown(side, levels) == Len(levels) = 1 /\ levels[1].volume = 0 /\ \A j \in 1..Len(side) : side[j].price # levels[1].price

\* C28: a delta applied to a valid book leaves, on each side, exactly the
\* sorted listing of the reference map update: from the old map price ->
\* (volume, order_count), each level of the delta in order removes its price
\* if its size is 0, and otherwise overwrites (volume, order_count) of the
\* price or inserts it.  So a size-0 level for a known price removes that
\* level and leaves every other level as it was, and a size-0 level for an
\* unknown price changes nothing.
C28_DeltaIsReferenceMapUpdate ==
    last_action = "update" =>
        /\ bids = ReferenceSide(delta_in.bids, delta_in.data.bids, TRUE)
        /\ asks = ReferenceSide(delta_in.asks, delta_in.data.asks, FALSE)
        /\ (Len(delta_in.data.bids) = 1 /\ RemovesKnown(delta_in.bids, delta_in.data.bids)) => bids = SelectSeq(delta_in.bids, LAMBDA l : l.price # delta_in.data.bids[1].price)
        /\ OnlyRemovesUnknown(delta_in.asks, delta_in.data.asks) => asks = delta_in.asks

\* a delta that removes a known bid and inserts an unknown one was applied
\* to a valid book, and the book it left is valid again
C28_Witness ==
    /\ last_action = "update"
    /\ ValidBook(delta_in.bids, delta_in.asks)
    /\ Len(delta_in.data.bids) = 2
    /\ RemovesKnown(delta_in.bids, delta_in.data.bids)
    /\ \E i \in 1..2 : delta_in.data.bids[i].volume > 0 /\ \A j \in 1..Len(delta_in.bids) : delta_in.bids[j].price # delta_in.data.bids[i].price
    /\ bids # delta_in.bids
    /\ Len(frames) = 2


\* ========================================== deque housekeeping (C30)
\* a fill of one of the engine's orders that leaves the order fully filled
FullFillStep ==
    /\ FillStep
    /\ ~ exch[FilledId].foreign
    /\ exch'[FilledId].cum = exch'[FilledId].volume

\* C30: after the fill callback has handled a fill that leaves an order fully
\* filled (exchange state "filled"), the order is no longer in the active
\* deque and its exchange id is in the known-orders map, for every such fill,
\* a fill that closes the current trade included
C30_FilledOrderLeavesDeque == [][FullFillStep => (Find(orders_', FilledId) = 0 /\ FilledId \in DOMAIN known_orders_')]_vars

\* ---------------------------------------------------------------------
\* The active-orders deque at its limit (store_order, fill callback)
\* ---------------------------------------------------------------------

\* the orders sent beyond the MaxDequeSize the run starts with
MaxExtraOrders == 2

\* the order the exchange booked under exchange id i: the first is a buy,
\* the others are sells, each of one lot; state ids are the sequence ids of
\* the frames
BookedOrder(i) == [state_id |-> i, side |-> IF i = 1 THEN "buy" ELSE "sell", volume |-> 1, px |-> IF i = 1 THEN 300 ELSE 303, cum |-> 0, acked |-> TRUE, foreign |-> FALSE]

\* the deque entry of a booked order after send_order and update_order_id
LiveOrder(b, okx_order_id) == DequeOrder(b.state_id, b.volume, okx_order_id, TRUE, 0, 0, FALSE, Ratio(0, b.volume), "live", b.side, 0)

\* MaxDequeSize orders have been sent and acknowledged and none has been
\* filled: the deque is full
EvictInit ==
    /\ DepthConstructed
    /\ RelayConstructed
    /\ ThreadsIdle
    /\ BufferConstructed
    /\ CancelConstructed
    /\ CodecConstructed
    /\ ReplayConstructed
    /\ DeltaConstructed
    /\ SendConstructed
    /\ DrainConstructed
    /\ exch = [i \in 1..MaxDequeSize |-> BookedOrder(i)]
    /\ orders_ = [i \in 1..MaxDequeSize |-> LiveOrder(BookedOrder(i), i)]
    /\ known_orders_ = [k \in 1..MaxDequeSize |-> k]
    /\ current_trade_ = Trade
    /\ next_trade_ = Trade
    /\ has_next_trade_ = FALSE
    /\ published_state_ids_ = {}
    /\ maxdd_ = 0
    /\ reports = <<>>

\* store_order: the orders the while loop drops from the front
Dropped(ords, order) == LET pushed == Append(ords, order) IN IF Len(pushed) > MaxDequeSize THEN SubSeq(pushed, 1, Len(pushed) - MaxDequeSize) ELSE <<>>

\* store_order: move_to_old_orders for every dropped order that has an
\* exchange id and is not filled
RECURSIVE MoveDropped(_, _)
MoveDropped(q, dropped) == IF dropped = <<>> THEN q ELSE MoveDropped(IF Head(dropped).has_okx_id /\ ~ Head(dropped).is_filled THEN Append(q, CancellationInfo(Head(dropped).okx_order_id, FALSE, FALSE)) ELSE q, Tail(dropped))

\* OKXWebSocket::send_order with a full deque: store_order pushes the pending
\* order and moves the front of the deque to the cancellation queue
SendOrder(side, size) ==
    /\ Len(exch) < MaxDequeSize + MaxExtraOrders
    /\ AllAcked(exch)
    /\ LET order == DequeOrder(Len(exch) + 1, size, NoId, FALSE, 0, 0, FALSE, Ratio(0, size), "pending", side, 0)
       IN /\ orders_' = store_order(orders_, order)
          /\ old_orders_' = MoveDropped(old_orders_, Dropped(orders_, order))
    /\ exch' = Append(exch, [state_id |-> Len(exch) + 1, side |-> side, volume |-> size, px |-> IF side = "buy" THEN 300 ELSE 303, cum |-> 0, acked |-> FALSE, foreign |-> FALSE])
    /\ UNCHANGED <<known_orders_, current_trade_, next_trade_, has_next_trade_, published_state_ids_, maxdd_, reports>>
    /\ UNCHANGED <<old_orders_mutex_, cancel_pc, confirmations, cancel_requests>>
    /\ UNCHANGED <<depth_vars, relay_vars, lock_vars, buffer_vars, codec_vars, replay_vars, delta_vars, send_vars, drain_vars>>

\* the orders whose acknowledgement and fills are followed: the front of the
\* deque and the orders sent last
FollowedIds == {1, 2} \cup (MaxDequeSize + 1)..(MaxDequeSize + MaxExtraOrders)

EvictNext ==
    \/ \E side \in {"sell"}, size \in 1..2 : SendOrder(side, size)
    \/ \E okx_order_id \in FollowedIds : OrderAck(okx_order_id)
    \/ \E okx_order_id \in FollowedIds, filled_size \in 1..2 : Fill(okx_order_id, filled_size)

EvictSpec == EvictInit /\ [][EvictNext]_vars

\* C31: after every completed operation on the active-orders deque (order
\* submission, exchange acknowledgement, fill handling with the restore of a
\* late-filled order) the deque holds at most MaxDequeSize entries
C31_DequeAtMostLimit == Len(orders_) <= MaxDequeSize

\* the exchange ids of the orders this step drops from the deque for its
\* size: orders with an exchange id and not filled that leave the deque in a
\* step that does not report a fill of theirs
EvictedIds == {orders_[i].okx_order_id : i \in {j \in 1..Len(orders_) : /\ orders_[j].has_okx_id /\ ~ orders_[j].is_filled /\ Find(orders_', orders_[j].okx_order_id) = 0 /\ exch'[orders_[j].okx_order_id].cum = exch[orders_[j].okx_order_id].cum}}

\* C32: whenever an order that has an exchange id and is not filled leaves
\* the active-orders deque because the deque exceeded its limit, the order is
\* in the cancellation queue after the same step and its exchange id is
\* still in the known-orders map, for an eviction on order submission and
\* for an eviction during fill handling
C32_EvictedOrderQueuedForCancel == [][\A e \in EvictedIds : InCancellationQueue(old_orders_', e) /\ e \in DOMAIN known_orders_']_vars

\* ---------------------------------------------------------------------
\* The cancellation queue while the engine runs (okx_websocket.cpp)
\* ---------------------------------------------------------------------

\* one round of buffer_processor_loop, the only periodic thread of
\* OKXWebSocket, with an empty fill buffer: process_buffered_updates returns
\* at once and the thread sleeps 100 ms; process_old_orders is not called
ProcessorTick ==
    /\ update_buffer_ = <<>>
    /\ Tick(100)

\* what the engine does with its cancellation queue: store_order fills it,
\* handle_message receives the exchange's messages, the processor thread
\* ticks.  handle_cancel_response, the one caller of process_old_orders, has
\* no caller.
CancelRunNext ==
    \/ \E okx_order_id \in CancelIds : move_to_old_orders(okx_order_id)
    \/ \E okx_order_id \in CancelIds : handle_message(okx_order_id)
    \/ ProcessorTick

\* the threads of the engine keep running
CancelRunSpec == CancelInit /\ [][CancelRunNext]_vars /\ WF_vars(CancelRunNext)

\* C33: every order placed in the cancellation queue eventually has a
\* cancel-order request sent to the exchange while the connection stays up
\* (at most one request per processing tick, none twice for one entry)
C33_QueuedOrderCancelRequested == \A e \in CancelIds : InCancellationQueue(old_orders_, e) ~> (e \in cancel_requests)

\* ========================================== order acknowledgement (C34)
\* the exchange's answer to the request for order e is handled in this step
AckStep(e) == e \in 1..Len(exch) /\ Len(exch') = Len(exch) /\ ~ exch[e].acked /\ exch'[e].acked

\* the deque entries waiting for the exchange id of the order with local id s
PendingAt(ords, s) == {i \in 1..Len(ords) : ords[i].state_id = s /\ ords[i].order_state = "pending"}

\* no entry of the deque is live without an exchange id or pending with one
StateMatchesId == \A i \in 1..Len(orders_) : (orders_[i].order_state = "live" => (orders_[i].has_okx_id /\ orders_[i].okx_order_id # NoId)) /\ (orders_[i].order_state = "pending" => (~ orders_[i].has_okx_id /\ orders_[i].okx_order_id = NoId))

\* C34: when the exchange acknowledges the order with client id s under the
\* exchange id e, the pending order with local id s in the deque becomes
\* live with exchange id e, the known-orders map gains e -> s and no other
\* order record changes; and no order is ever live without an exchange id
\* or pending with one
C34_AckMakesOrderLive ==
    /\ []StateMatchesId
    /\ [][\A e \in 1..Len(exch) : AckStep(e) =>
            LET s == exch[e].state_id
            IN /\ Cardinality(PendingAt(orders_, s)) = 1
               /\ Len(orders_') = Len(orders_)
               /\ \A i \in 1..Len(orders_) :
                     orders_'[i] = IF i \in PendingAt(orders_, s)
                                   THEN [orders_[i] EXCEPT !.order_state = "live", !.has_okx_id = TRUE, !.okx_order_id = e]
                                   ELSE orders_[i]
               /\ e \notin DOMAIN known_orders_
               /\ DOMAIN known_orders_' = DOMAIN known_orders_ \cup {e}
               /\ known_orders_'[e] = s
               /\ \A k \in DOMAIN known_orders_ : known_orders_'[k] = known_orders_[k]
               /\ UNCHANGED <<current_trade_, next_trade_, has_next_trade_, reports>>]_vars

\* the second order was acknowledged while the first, live and untouched by
\* any fill, was in the deque
C34_Witness == Len(orders_) = 2 /\ orders_[1].order_state = "live" /\ orders_[2].order_state = "live" /\ orders_[1].okx_order_id # orders_[2].okx_order_id /\ DOMAIN known_orders_ = {orders_[1].okx_order_id, orders_[2].okx_order_id} /\ known_orders_[orders_[2].okx_order_id] = orders_[2].state_id

\* ========================================================= drawdown (C35)
\* C35: the drawdown that enters a trade's closure reward is the most
\* negative unrealised-PnL ratio seen on the position channel during that
\* trade only: maxdd is back at 0 whenever the position is flat, so that a
\* drawdown seen during an earlier trade cannot reach a later trade's reward
C35_MaxddResetOnFlat == (Position(exch) = 0 /\ ~ current_trade_.has_active_trade) => maxdd_ = 0

\* ============================================ report per executed order (C37)
\* the first fill of one of the engine's acknowledged orders is handled
FirstFillStep == FillStep /\ ~ exch[FilledId].foreign /\ exch[FilledId].cum = 0 /\ FilledId \in DOMAIN known_orders_

\* this step published a per-execution report for the order
ReportedNow(state_id, okx_id) == \E k \in 1..Len(NewReports) : ~ NewReports[k].is_trade_closed /\ NewReports[k].state_id = state_id /\ NewReports[k].okx_id = okx_id

\* C37: every order that receives its first recognised fill gets one
\* per-execution report carrying its state_id and okx_id, also when its
\* state_id is the state_id of an earlier order that was reported (the
\* 16-bit sequence id has wrapped)
C37_EveryExecutedOrderReported == [][FirstFillStep => ReportedNow(exch[FilledId].state_id, FilledId)]_vars

\* ================================= closure reports at the Decision Relay (C38)
\* the orders of the Decision Relay's trade skeleton after it has handled the
\* reports rs in publication order: handleExecutionUpdate adds an order for
\* a per-execution report and starts a new TradeInfo at a closure report
RECURSIVE SkeletonAfter(_)
SkeletonAfter(rs) == IF rs = <<>> THEN <<>> ELSE LET r == rs[Len(rs)] before == SkeletonAfter(SubSeq(rs, 1, Len(rs) - 1)) IN IF r.is_trade_closed THEN <<>> ELSE AddOrder(before, r.state_id, r.okx_id, <<>>)

\* C38: with the reports delivered reliably and in publication order, when
\* the Decision Relay handles a trade-closure report every okx_id of its
\* filled_portions has an order record in the current trade skeleton; so the
\* opening order of a follow-on trade made by a position flip is in the
\* skeleton when the closure report of the follow-on trade is handled
C38_ClosurePortionsInSkeleton ==
    \A n \in 1..Len(reports) : reports[n].is_trade_closed =>
        LET skeleton == SkeletonAfter(SubSeq(reports, 1, n - 1))
        IN \A p \in 1..Len(reports[n].filled_portions) : \E k \in 1..Len(skeleton) : skeleton[k].okx_id = reports[n].filled_portions[p][1]

\* ============================== the send queue of the exchange client (C39)
\* the number of messages a run accepts into the send queue
MaxMessages == 5

\* a message, numbered by the order of its acceptance into the queue
Message(n, kind) == [seq |-> n, kind |-> kind]

\* the messages accepted so far
Accepted == Len(written) + Len(send_queue_)

\* OKXWebSocket::send_ws_message with the connection up: the message joins
\* the back of the queue q (the caller also requests a writeable callback)
send_ws_message(q, kind) == Append(q, Message(Len(written) + Len(q) + 1, kind))

\* one message is sent: the login at LWS_CALLBACK_CLIENT_ESTABLISHED, an order
\* (send_order) or a cancel request (send_cancel_order)
SendMessage(kind) ==
    /\ Accepted < MaxMessages
    /\ send_queue_' = send_ws_message(send_queue_, kind)
    /\ writeable_requested' = TRUE
    /\ UNCHANGED written
    /\ UNCHANGED outside_send

\* handle_message, successful login response: fetch_balance,
\* subscribe_to_orders and subscribe_to_positions each send a message, all
\* inside the one receive callback
LoginResponse ==
    /\ Accepted + 3 <= MaxMessages
    /\ send_queue_' = send_ws_message(send_ws_message(send_ws_message(send_queue_, "balance"), "orders"), "positions")
    /\ writeable_requested' = TRUE
    /\ UNCHANGED written
    /\ UNCHANGED outside_send

\* LWS_CALLBACK_CLIENT_WRITEABLE: the requests made since the last callback
\* give one callback; it writes the message at the front of the queue, if
\* there is one, and requests nothing
Writeable ==
    /\ writeable_requested
    /\ writeable_requested' = FALSE
    /\ IF send_queue_ # <<>>
          THEN /\ written' = Append(written, Head(send_queue_))
               /\ send_queue_' = Tail(send_queue_)
          ELSE UNCHANGED <<written, send_queue_>>
    /\ UNCHANGED outside_send

SendNext ==
    \/ \E kind \in {"login", "order", "cancel"} : SendMessage(kind)
    \/ LoginResponse
    \/ Writeable

\* the service thread runs lws_service in a loop while the connection is up,
\* so a requested writeable callback does fire
SendSpec == Init /\ [][SendNext]_vars /\ WF_vars(Writeable)

\* the messages are written in the order of their acceptance
WrittenInFifoOrder == \A i \in 1..Len(written) : written[i].seq = i

\* C39: while the connection stays up every message accepted into the send
\* queue is eventually written to the WebSocket, and the messages are written
\* in FIFO order, however many messages were queued between two writeable
\* callbacks
C39_QueuedMessageWritten ==
    /\ []WrittenInFifoOrder
    /\ \A n \in 1..MaxMessages : (\E i \in 1..Len(send_queue_) : send_queue_[i].seq = n) ~> (\E i \in 1..Len(written) : written[i].seq = n)

\* ======================= the two threads at the fill buffer, step by step (C40)
\* what neither add_to_buffer nor process_buffered_updates touches
outside_fill_buffer == <<oms_vars, depth_vars, relay_vars, lock_vars, cancel_vars, codec_vars, replay_vars, delta_vars, send_vars>>

\* without the mutex a thread enters whoever holds it
lock_guard_NoExclusion(mutex) == TRUE
\* std::lock_guard<std::mutex> lock(buffer_mutex_): the constructor returns
\* once no other thread holds the mutex
lock_guard(mutex) == mutex = "free"

\* add_to_buffer, line 88: the WebSocket thread has received the update u
\* and takes the mutex
AddLock(u) ==
    /\ u \in in_flight
    /\ adding = {}
    /\ lock_guard(buffer_mutex_)
    /\ buffer_mutex_' = "ws"
    /\ adding' = {BufferedOrderUpdate(u.okx_order_id, u.timestamp, arrived + 1)}
    /\ in_flight' = in_flight \ {u}
    /\ arrived' = arrived + 1
    /\ UNCHANGED <<update_buffer_, now, ticks, trade_portions, drain_pc, to_process, split_point>>
    /\ UNCHANGED outside_fill_buffer

\* add_to_buffer, lines 89-96: push_back, sort, and the guard releases
AddPush ==
    /\ adding # {}
    /\ \E update \in adding : update_buffer_' \in SortByTimestamp(Append(update_buffer_, update))
    /\ adding' = {}
    /\ buffer_mutex_' = "free"
    /\ UNCHANGED <<now, ticks, in_flight, arrived, trade_portions, drain_pc, to_process, split_point>>
    /\ UNCHANGED outside_fill_buffer

\* process_buffered_updates, line 102: the buffer processor thread takes
\* the mutex
DrainLock ==
    /\ drain_pc = "idle"
    /\ lock_guard(buffer_mutex_)
    /\ buffer_mutex_' = "drain"
    /\ drain_pc' = "locked"
    /\ UNCHANGED <<buffer_vars, adding, to_process, split_point>>
    /\ UNCHANGED outside_fill_buffer

\* process_buffered_updates, lines 103-119: return on an empty buffer;
\* otherwise std::partition puts the updates older than the window in front
\* and they are moved to updates_to_process
DrainPartition ==
    /\ drain_pc = "locked"
    /\ IF update_buffer_ = <<>>
          THEN /\ buffer_mutex_' = "free"
               /\ drain_pc' = "idle"
               /\ UNCHANGED <<update_buffer_, to_process, split_point>>
          ELSE \E split \in Arrangements(update_buffer_) :
                  LET current_time == now
                      k == Cardinality({i \in 1..Len(split) : Due(split[i], current_time)})
                  IN /\ \A i \in 1..Len(split) : Due(split[i], current_time) <=> i <= k
                     /\ update_buffer_' = split
                     /\ split_point' = k
                     /\ to_process' = SubSeq(split, 1, k)
                     /\ drain_pc' = "moved"
                     /\ UNCHANGED buffer_mutex_
    /\ UNCHANGED <<now, ticks, in_flight, arrived, trade_portions, adding>>
    /\ UNCHANGED outside_fill_buffer

\* process_buffered_updates, lines 121-122: erase(begin, split_point), and
\* the guard releases
DrainErase ==
    /\ drain_pc = "moved"
    /\ update_buffer_' = SubSeq(update_buffer_, split_point + 1, Len(update_buffer_))
    /\ split_point' = 0
    /\ buffer_mutex_' = "free"
    /\ drain_pc' = "deliver"
    /\ UNCHANGED <<now, ticks, in_flight, arrived, trade_portions, adding, to_process>>
    /\ UNCHANGED outside_fill_buffer

\* process_buffered_updates, lines 124-143: the moved updates are sorted by
\* timestamp and handed to the fill callback one after the other
DrainDeliver ==
    /\ drain_pc = "deliver"
    /\ \E sorted \in SortByTimestamp(to_process) : trade_portions' = trade_portions \o FillPortions(sorted)
    /\ to_process' = <<>>
    /\ drain_pc' = "idle"
    /\ UNCHANGED <<update_buffer_, now, ticks, in_flight, arrived, buffer_mutex_, adding, split_point>>
    /\ UNCHANGED outside_fill_buffer

DrainNext ==
    \/ ExchangeFill
    \/ \E d \in TickSizes : Tick(d)
    \/ \E u \in in_flight : AddLock(u)
    \/ AddPush
    \/ DrainLock
    \/ DrainPartition
    \/ DrainErase
    \/ DrainDeliver

DrainSpec == BufferInit /\ [][DrainNext]_vars

\* how often the update the engine received as number k was handed to the
\* fill callback
Deliveries(k) == Cardinality({i \in 1..Len(trade_portions) : trade_portions[i].arrival = k})

\* the update number k is with add_to_buffer, in the buffer, or moved out
\* of it for delivery
Held(k) ==
    \/ \E update \in adding : update.arrival = k
    \/ \E i \in 1..Len(update_buffer_) : update_buffer_[i].arrival = k
    \/ \E i \in 1..Len(to_process) : to_process[i].arrival = k

\* C40: however the WebSocket thread's add_to_buffer and the buffer
\* processor thread's process_buffered_updates interleave, no fill update is
\* handed to the fill callback twice, an update not yet handed over is still
\* held (none is lost), and an update is handed over only when its timestamp
\* is more than 2000 ms older than the buffer processor thread's time
C40_EachUpdateDeliveredOnce ==
    /\ \A k \in 1..arrived : Deliveries(k) <= 1 /\ (Deliveries(k) = 0 => Held(k))
    /\ \A i \in 1..Len(trade_portions) : now - trade_portions[i].timestamp > BUFFER_WINDOW_MS

\* the buffer processor thread has moved an update older than the window out
\* of the buffer and released the mutex, and before it hands the update to
\* the fill callback the WebSocket thread holds the mutex, adding an update
C40_Witness == drain_pc = "deliver" /\ Len(to_process) = 1 /\ Due(to_process[1], now) /\ buffer_mutex_ = "ws" /\ adding # {}

====
